---- MODULE Spec2Model ----
(***************************************************************************)
(* Agent session hook (useAgentSession), the session-update router of     *)
(* ChatView and the session history store (SettingsStore), modelled as a  *)
(* state machine.  Every asynchronous function is cut at its awaits: one  *)
(* action per segment between two awaits.  A React state update, the      *)
(* re-render and the effects that follow it are one atomic step.          *)
(***************************************************************************)
EXTENDS Integers, Sequences, FiniteSets, TLC

\* ------------------------------------------------------------------ bounds
\* createSession calls that may be in flight at the same time
MaxCreate == 2
\* createSession / loadSession calls started in one run
MaxStarts == 2
\* content blocks kept in the chat message list
MaxMessages == 2
\* saveSession / deleteSession / saveSessionMessages calls started in one run
MaxStoreOps == 3
\* repairSessionMetadata runs started in one run
MaxRepairs == 3
\* prompts submitted in one run
MaxPrompts == 2
\* cancelOperation calls made during one turn
MaxCancels == 2
\* custom agents in the registry
MaxCustomAgents == 3
\* options of one permission request
MaxOptions == 3

\* ------------------------------------------------------------------ values
\* agent ids of the registry (settings.claude.id, settings.gemini.id)
KnownAgents == {"claude", "gemini"}
\* an active agent id that no registry entry carries (a removed custom agent)
AgentIds == KnownAgents \cup {"removed"}
\* session.sessionId: 0 stands for null, the adapter issues 1, 2, ...
NoSession == 0
SessionIds == 1..(MaxStarts + 1)
Undefined == "undefined"
ModeIds == {"default", "plan"}
ModelIds == {"opus", "sonnet"}
CommandLists == {"cmdsA", "cmdsB"}
NoError == "none"
SessionStates == {"disconnected", "initializing", "ready", "error"}

VARIABLES
    session,                  \* ChatSession held by the hook
    errorInfo,                \* title of the SessionErrorInfo, or NoError
    settings,                 \* settings snapshot of the SettingsStore
    adapter,                  \* the protocol adapter as the hook sees it
    calls,                    \* position and locals of every asynchronous call
    hist,                     \* history: calls started
    messages,                 \* chat message list (content blocks, tagged)
    isLoadingSessionHistory,  \* ChatView flag set by handleLoadStart
    isSending,                \* a turn is in flight (chat.isSending)
    savedSessions,            \* SettingsStore state.savedSessions (metadata list)
    sessionsDir,              \* the sessions/ directory exists
    files,                    \* sessions/ directory: file path -> file content
    repairLog,                \* history of the repairSessionMetadata runs
    last                      \* the step taken last

vars == <<session, errorInfo, settings, adapter, calls, hist, messages,
          isLoadingSessionHistory, isSending, savedSessions, sessionsDir, files,
          repairLog, last>>

storeVars == <<savedSessions, sessionsDir, files, repairLog>>

CreateSlots == 1..MaxCreate

\* ------------------------------------------------------------- step record
NoUpdate == [sessionId |-> NoSession, type |-> "none", value |-> Undefined]

\* op, res: the segment that ran and how it ended.  For a delivered notification
\* also: the notification, the session id and load flag the handler saw, the
\* modes it found, and whether the message list / the session changed.
Step(op, res) ==
    [op |-> op, res |-> res, u |-> NoUpdate, bound |-> NoSession,
     loading |-> FALSE, preModes |-> Undefined, msgsChanged |-> FALSE,
     sessChanged |-> FALSE]

\* ---------------------------------------------------------------- helpers
getActiveAgentId(s) == s.activeAgentId

\* the built-in entries first, then the custom agents in list order
findAgentSettings(s, agentId) ==
    \/ agentId \in KnownAgents
    \/ \E i \in DOMAIN s.customAgents : s.customAgents[i] = agentId

\* an environment: pairs of variable name and value
entry(name, value) == IF value = "" THEN {} ELSE {<<name, value>>}

\* the env of the AgentConfig: the global key, base URL and model under the
\* variable names of the agent family (no model variable for claude)
buildAgentConfigWithApiKey(s, agentId) ==
    IF s.apiKey = "" THEN {}
    ELSE CASE agentId = "claude" ->
                entry("ANTHROPIC_AUTH_TOKEN", s.apiKey)
                \cup entry("ANTHROPIC_BASE_URL", s.baseUrl)
           [] agentId = "gemini" ->
                entry("GEMINI_API_KEY", s.apiKey)
                \cup entry("GOOGLE_GEMINI_BASE_URL", s.baseUrl)
                \cup entry("GEMINI_MODEL", s.model)
           [] agentId = "codex" ->
                entry("OPENAI_API_KEY", s.apiKey)
                \cup entry("OPENAI_BASE_URL", s.baseUrl)
                \cup entry("OPENAI_MODEL", s.model)
           [] OTHER -> {}

createInitialSession(agentId) ==
    [sessionId |-> NoSession, state |-> "disconnected", agentId |-> agentId,
     authMethods |-> <<>>, agentCapabilities |-> Undefined,
     availableCommands |-> Undefined, modes |-> Undefined, models |-> Undefined]

\* what adapter.initialize(config) resolves with for an agent: its
\* authentication methods and its capabilities
initResult(agentId) == [authMethods |-> <<agentId>>, agentCapabilities |-> agentId]

\* adapter.isInitialized() / adapter.getCurrentAgentId()
isInitialized == adapter.initialized
getCurrentAgentId == adapter.agentId

needsInitialize_always(activeAgentId) == TRUE

needsInitialize(activeAgentId) ==
    ~isInitialized \/ getCurrentAgentId # activeAgentId

\* settings.autoInstallAgents && command not configured
needsAutoInstall(s, agentId) ==
    s.autoInstallAgents /\ agentId \notin s.configured

\* the reset at the head of createSession and loadSession
resetToInitializing(prev, activeAgentId) ==
    [prev EXCEPT !.sessionId = NoSession, !.state = "initializing",
                 !.agentId = activeAgentId, !.authMethods = <<>>,
                 !.availableCommands = Undefined,
                 !.modes = Undefined, !.models = Undefined]

\* the update to ready at the end of createSession and loadSession: the local
\* authMethods is [] unless this call initialized, the capabilities are those
\* of the initialize result or the previous ones
ready(prev, sessionId, call, modes, models) ==
    [prev EXCEPT !.sessionId = sessionId, !.state = "ready",
                 !.authMethods = IF call.needsInit
                                 THEN initResult(call.agentId).authMethods ELSE <<>>,
                 !.agentCapabilities = IF call.needsInit
                                       THEN initResult(call.agentId).agentCapabilities
                                       ELSE @,
                 !.modes = modes, !.models = models]

\* the early return of createSession / loadSession when the agent is unknown
agentNotFound_stuck(prev) == prev

agentNotFound(prev) == [prev EXCEPT !.state = "error"]

\* history: createSession / loadSession calls started so far
started == [hist EXCEPT !.starts = @ + 1]

\* invocations of adapter.initialize for one agent id since the last
\* disconnect(): 0, 1, or 2 for "more than once"
countInitialize(n) == IF n = 0 THEN 1 ELSE 2

IdleCreate == [pc |-> "idle", agentId |-> "claude", needsInit |-> FALSE, env |-> {}]
IdleLoad == [pc |-> "idle", agentId |-> "claude", needsInit |-> FALSE, loadId |-> NoSession]
\* cancelOperation calls of the turn: awaiting adapter.cancel, and returned;
\* sid is the session id the latest call passed to the adapter
IdleCancel == [inFlight |-> 0, settled |-> 0, sid |-> NoSession]
IdleClose == [pc |-> "idle", sid |-> NoSession, log |-> <<>>, cancelRes |-> "none"]
IdleSet == [pc |-> "idle", sid |-> NoSession, id |-> Undefined,
            previous |-> Undefined, before |-> Undefined]
IdleSwitch == [pc |-> "idle", agentId |-> "claude"]
IdleRepair == [pc |-> "idle", existingIds |-> {}, pending |-> {}, repairedSessions |-> <<>>]
IdleDelete == [pc |-> "idle", sessionId |-> <<>>]
IdleSaveMessages == [pc |-> "idle", sessionId |-> <<>>, messages |-> <<>>]
\* loadSessionMessages returns ChatMessage[] or null
Null == [isNull |-> TRUE, messages |-> <<>>]
IdleLoadMessages == [pc |-> "idle", sessionId |-> <<>>, result |-> Null]
\* SendPromptResult; nothing returned yet
NoResult ==
    [returned |-> FALSE, success |-> FALSE, category |-> "none", title |-> "none",
     requiresAuth |-> FALSE, retriedSuccessfully |-> FALSE]
\* a prompt submission: input.authMethods.length, the adapter calls made so
\* far with their outcomes, and the result
IdleSend == [pc |-> "idle", authMethods |-> 0, log |-> <<>>, result |-> NoResult]
NoRepairs == [before |-> <<>>, dirty |-> FALSE, results |-> <<>>]
\* the adapter's initialize handshake: the call, the agent process it
\* spawned, its timeout timer, the time since it started, and the calls made
IdleInitialize ==
    [pc |-> "idle", error |-> "none", process |-> "none", timer |-> "none", clock |-> 0,
     n |-> 0]
\* autoInstallAgent: the install process, its timer, the hasTimeout flag,
\* the exit code seen, what the promise resolved with, and the time in ms
IdleInstall ==
    [child |-> "none", timer |-> "none", hasTimeout |-> FALSE, code |-> 0,
     result |-> "none", clock |-> 0]
\* the process is spawned and the timer armed in the promise executor
Spawned == [IdleInstall EXCEPT !.child = "running", !.timer = "pending"]
\* no sessionHistory.saveSessionMessages call was made by the turn-end effect
NoSave == [sessionId |-> NoSession, messages |-> <<>>]
\* the turn in flight or last ended: the session it was sent on and the
\* call the save-on-turn-end effect made when it ended
IdleTurn == [sessionId |-> NoSession, save |-> NoSave]

\* ------------------------------------------------------------------- Init
\* state after construction of the hook, the view and the store; the agent
\* commands are not configured yet, auto-install is one of autoInstall
InitSession(autoInstall) ==
    /\ session = createInitialSession("claude")
    /\ errorInfo = NoError
    /\ settings \in [activeAgentId : {"claude"}, autoInstallAgents : autoInstall,
                     configured : {{}}, apiKey : {"sk-1"}, baseUrl : {""}, model : {""},
                     customAgents : {<<>>}]
    /\ adapter = [initialized |-> FALSE, agentId |-> "none", nextSid |-> 1,
                  initCalls |-> [a \in KnownAgents |-> 0], env |-> {}]
    /\ calls = [create |-> [c \in CreateSlots |-> IdleCreate], load |-> IdleLoad,
                cancel |-> IdleCancel, close |-> IdleClose, mode |-> IdleSet,
                model |-> IdleSet, switch |-> IdleSwitch, repair |-> IdleRepair,
                deleteSession |-> IdleDelete, saveSessionMessages |-> IdleSaveMessages,
                loadSessionMessages |-> IdleLoadMessages, send |-> IdleSend,
                turn |-> IdleTurn, initialize |-> IdleInitialize,
                handler |-> [sessionId |-> NoSession, loading |-> FALSE],
                install |-> IdleInstall,
                permission |-> [pc |-> "idle", options |-> <<>>, chosen |-> 0,
                                answered |-> "none", sent |-> FALSE]]
    /\ hist = [starts |-> 0, storeOps |-> 0, repairs |-> 0, prompts |-> 0]
    /\ repairLog = NoRepairs
    /\ messages = <<>>
    /\ isLoadingSessionHistory = FALSE
    /\ isSending = FALSE
    /\ last = Step("init", "none")

\* a fresh vault: no saved session, no sessions/ directory
EmptyStore ==
    /\ savedSessions = <<>>
    /\ sessionsDir = FALSE
    /\ files = <<>>

InitWith(autoInstall) == InitSession(autoInstall) /\ EmptyStore

Init == InitWith(BOOLEAN)

\* auto-install switched off in the settings
InitPlain == InitWith({FALSE})

chatVars == <<messages, isLoadingSessionHistory, isSending>>

\* ---------------------------------------------------------- createSession
\* the adapter call that follows the needsInitialize check (no await between)
\* initialize(agentConfig) spawns the agent process with agentConfig.env;
\* without initialize the agentConfig that was built is not used
createSession_connect(c, activeAgentId, env) ==
    IF needsInitialize(activeAgentId)
    THEN /\ calls' = [calls EXCEPT !.create[c] =
                        [pc |-> "initialize", agentId |-> activeAgentId, needsInit |-> TRUE,
                         env |-> env]]
         /\ adapter' = [adapter EXCEPT !.initCalls[activeAgentId] = countInitialize(@),
                                       !.env = env]
    ELSE /\ calls' = [calls EXCEPT !.create[c] =
                        [pc |-> "newSession", agentId |-> activeAgentId, needsInit |-> FALSE,
                         env |-> env]]
         /\ UNCHANGED adapter

\* calls are interchangeable: a new call takes the lowest free slot
createSession(c) ==
    /\ calls.create[c].pc = "idle"
    /\ \A d \in CreateSlots : d < c => calls.create[d].pc # "idle"
    /\ hist.starts < MaxStarts
    /\ hist' = started
    /\ LET activeAgentId == getActiveAgentId(settings)
           reset == resetToInitializing(session, activeAgentId)
       IN  IF ~findAgentSettings(settings, activeAgentId)
           THEN /\ session' = agentNotFound(reset)
                /\ errorInfo' = "Agent Not Found"
                /\ last' = Step("createSession", "notFound")
                /\ UNCHANGED <<calls, adapter>>
           ELSE /\ session' = reset
                /\ errorInfo' = NoError
                /\ last' = Step("createSession", "awaiting")
                /\ IF needsAutoInstall(settings, activeAgentId)
                   THEN /\ calls' = [calls EXCEPT !.create[c] =
                                [pc |-> "autoInstall", agentId |-> activeAgentId,
                                 needsInit |-> FALSE,
                                 env |-> buildAgentConfigWithApiKey(settings, activeAgentId)],
                                                 !.install = Spawned]
                        /\ UNCHANGED adapter
                   ELSE createSession_connect(c, activeAgentId,
                            buildAgentConfigWithApiKey(settings, activeAgentId))
    /\ UNCHANGED <<storeVars, settings, chatVars>>

\* autoInstallAgent resolved: on success the command is assigned to the agent
\* entry of the settings object obtained from getSnapshot() (no updateSettings
\* call), failure goes on
createSession_afterInstall(c, success) ==
    /\ calls.create[c].pc = "autoInstall"
    /\ LET activeAgentId == calls.create[c].agentId
       IN  /\ settings' = IF success
                          THEN [settings EXCEPT !.configured = @ \cup {activeAgentId}]
                          ELSE settings
           /\ createSession_connect(c, activeAgentId, calls.create[c].env)
    /\ last' = Step("createSession_afterInstall", IF success THEN "ok" ELSE "failed")
    /\ UNCHANGED <<storeVars, session, errorInfo, hist, chatVars>>

\* autoInstallAgent has not resolved: the install process it spawned has not
\* closed and its two-minute timer is pending; both are locals of the promise
autoInstallRunning == \E c \in CreateSlots : calls.create[c].pc = "autoInstall"

\* adapter.initialize settled
createSession_afterInitialize(c, ok) ==
    /\ calls.create[c].pc = "initialize"
    /\ IF ok
       THEN /\ adapter' = [adapter EXCEPT !.initialized = TRUE,
                                          !.agentId = calls.create[c].agentId]
            /\ calls' = [calls EXCEPT !.create[c].pc = "newSession"]
            /\ UNCHANGED <<session, errorInfo>>
       ELSE /\ adapter' = [adapter EXCEPT !.initialized = FALSE, !.agentId = "none"]
            /\ calls' = [calls EXCEPT !.create[c] = IdleCreate]
            /\ session' = [session EXCEPT !.state = "error"]
            /\ errorInfo' = "Session Creation Failed"
    /\ last' = Step("createSession_afterInitialize", IF ok THEN "ok" ELSE "rejected")
    /\ UNCHANGED <<storeVars, settings, hist, chatVars>>

\* adapter.newSession settled; modes and models are optional in the result
createSession_afterNewSession(c, ok, modes, models) ==
    /\ calls.create[c].pc = "newSession"
    /\ calls' = [calls EXCEPT !.create[c] = IdleCreate]
    /\ IF ok
       THEN /\ session' = ready(session, adapter.nextSid, calls.create[c], modes, models)
            /\ adapter' = [adapter EXCEPT !.nextSid = @ + 1]
            /\ UNCHANGED errorInfo
       ELSE /\ session' = [session EXCEPT !.state = "error"]
            /\ errorInfo' = "Session Creation Failed"
            /\ UNCHANGED adapter
    /\ last' = Step("createSession_afterNewSession", IF ok THEN "ok" ELSE "rejected")
    /\ UNCHANGED <<storeVars, settings, hist, chatVars>>


\* ------------------------------------------------------------ loadSession
loadSession_connect(activeAgentId, sessionId) ==
    IF needsInitialize(activeAgentId)
    THEN /\ calls' = [calls EXCEPT !.load =
                        [pc |-> "initialize", agentId |-> activeAgentId,
                         needsInit |-> TRUE, loadId |-> sessionId]]
         /\ adapter' = [adapter EXCEPT !.initCalls[activeAgentId] = countInitialize(@),
                                       !.env = buildAgentConfigWithApiKey(settings,
                                                                          activeAgentId)]
    ELSE /\ calls' = [calls EXCEPT !.load =
                        [pc |-> "loadSession", agentId |-> activeAgentId,
                         needsInit |-> FALSE, loadId |-> sessionId]]
         /\ UNCHANGED adapter

loadSession(sessionId) ==
    /\ calls.load.pc = "idle"
    /\ hist.starts < MaxStarts
    /\ hist' = started
    /\ LET activeAgentId == getActiveAgentId(settings)
           reset == resetToInitializing(session, activeAgentId)
       IN  IF ~findAgentSettings(settings, activeAgentId)
           THEN /\ session' = agentNotFound(reset)
                /\ errorInfo' = "Agent Not Found"
                /\ last' = Step("loadSession", "notFound")
                /\ UNCHANGED <<calls, adapter>>
           ELSE /\ session' = reset
                /\ errorInfo' = NoError
                /\ last' = Step("loadSession", "awaiting")
                /\ loadSession_connect(activeAgentId, sessionId)
    /\ UNCHANGED <<storeVars, settings, chatVars>>

loadSession_afterInitialize(ok) ==
    /\ calls.load.pc = "initialize"
    /\ IF ok
       THEN /\ adapter' = [adapter EXCEPT !.initialized = TRUE,
                                          !.agentId = calls.load.agentId]
            /\ calls' = [calls EXCEPT !.load.pc = "loadSession"]
            /\ UNCHANGED <<session, errorInfo>>
       ELSE /\ adapter' = [adapter EXCEPT !.initialized = FALSE, !.agentId = "none"]
            /\ calls' = [calls EXCEPT !.load = IdleLoad]
            /\ session' = [session EXCEPT !.state = "error"]
            /\ errorInfo' = "Session Loading Failed"
    /\ last' = Step("loadSession_afterInitialize", IF ok THEN "ok" ELSE "rejected")
    /\ UNCHANGED <<storeVars, settings, hist, chatVars>>

loadSession_afterLoadSession(ok, modes, models) ==
    /\ calls.load.pc = "loadSession"
    /\ calls' = [calls EXCEPT !.load = IdleLoad]
    /\ IF ok
       THEN /\ session' = ready(session, calls.load.loadId, calls.load, modes, models)
            /\ UNCHANGED errorInfo
       ELSE /\ session' = [session EXCEPT !.state = "error"]
            /\ errorInfo' = "Session Loading Failed"
    /\ last' = Step("loadSession_afterLoadSession", IF ok THEN "ok" ELSE "rejected")
    /\ UNCHANGED <<storeVars, settings, adapter, hist, chatVars>>

\* ----------------------------------------------------------- closeSession
\* adapter.disconnect(): the process is gone and the adapter is uninitialized
disconnect ==
    [adapter EXCEPT !.initialized = FALSE, !.agentId = "none",
                    !.initCalls = [a \in KnownAgents |-> 0], !.env = {}]

closeSession ==
    /\ calls.close.pc = "idle"
    /\ IF session.sessionId # NoSession
       THEN /\ calls' = [calls EXCEPT !.close =
                          [pc |-> "cancel", sid |-> session.sessionId, log |-> <<"cancel">>,
                           cancelRes |-> "none"]]
            /\ UNCHANGED adapter
       ELSE /\ calls' = [calls EXCEPT !.close =
                          [pc |-> "disconnect", sid |-> NoSession, log |-> <<"disconnect">>,
                           cancelRes |-> "none"]]
            /\ adapter' = disconnect
    /\ last' = Step("closeSession", "awaiting")
    /\ UNCHANGED <<storeVars, session, errorInfo, settings, hist, chatVars>>

\* adapter.cancel settled either way: go on to disconnect
closeSession_afterCancel(ok) ==
    /\ calls.close.pc = "cancel"
    /\ calls' = [calls EXCEPT !.close.pc = "disconnect",
                              !.close.log = Append(@, "disconnect"),
                              !.close.cancelRes = IF ok THEN "ok" ELSE "rejected"]
    /\ adapter' = disconnect
    /\ last' = Step("closeSession_afterCancel", IF ok THEN "ok" ELSE "rejected")
    /\ UNCHANGED <<storeVars, session, errorInfo, settings, hist, chatVars>>

closeSession_skipOnReject(prev, ok) ==
    IF ok THEN [prev EXCEPT !.sessionId = NoSession, !.state = "disconnected"] ELSE prev

\* the state update at the end of closeSession, after disconnect settled
closeSession_finish(prev, ok) ==
    [prev EXCEPT !.sessionId = NoSession, !.state = "disconnected"]

closeSession_afterDisconnect(ok) ==
    /\ calls.close.pc = "disconnect"
    /\ calls' = [calls EXCEPT !.close.pc = "idle"]
    /\ session' = closeSession_finish(session, ok)
    /\ last' = Step("closeSession_afterDisconnect", IF ok THEN "ok" ELSE "rejected")
    /\ UNCHANGED <<storeVars, errorInfo, settings, adapter, hist, chatVars>>

\* -------------------------------------------------------- cancelOperation
\* reached from the stop control and from handleNewChat, both while sending
\* a second call may start while the first still awaits adapter.cancel
cancelOperation ==
    /\ isSending
    /\ calls.cancel.inFlight + calls.cancel.settled < MaxCancels
    /\ IF session.sessionId = NoSession
       THEN /\ last' = Step("cancelOperation", "noSession")
            /\ calls' = [calls EXCEPT !.cancel.settled = @ + 1]
       ELSE /\ last' = Step("cancelOperation", "awaiting")
            /\ calls' = [calls EXCEPT !.cancel.inFlight = @ + 1,
                                      !.cancel.sid = session.sessionId]
    /\ UNCHANGED <<storeVars, session, errorInfo, settings, adapter, hist, chatVars>>

cancelOperation_dropSession(prev, ok) ==
    [prev EXCEPT !.state = "ready", !.sessionId = NoSession]

cancelOperation_keepOnReject(prev, ok) ==
    IF ok THEN [prev EXCEPT !.state = "ready"] ELSE prev

\* both the try branch and the catch branch set the state to ready
cancelOperation_finish(prev, ok) == [prev EXCEPT !.state = "ready"]

cancelOperation_afterCancel(ok) ==
    /\ calls.cancel.inFlight > 0
    /\ calls' = [calls EXCEPT !.cancel.inFlight = @ - 1, !.cancel.settled = @ + 1]
    /\ session' = cancelOperation_finish(session, ok)
    /\ last' = Step("cancelOperation_afterCancel", IF ok THEN "ok" ELSE "rejected")
    /\ UNCHANGED <<storeVars, errorInfo, settings, adapter, hist, chatVars>>

\* ------------------------------------------------------------ switchAgent
switched_restarting(prev, agentId) ==
    [prev EXCEPT !.agentId = agentId, !.state = "initializing", !.sessionId = NoSession,
                 !.agentCapabilities = Undefined, !.availableCommands = Undefined,
                 !.modes = Undefined, !.models = Undefined]

\* the session update of switchAgent: the agent id and the agent-specific data
switched(prev, agentId) ==
    [prev EXCEPT !.agentId = agentId, !.agentCapabilities = Undefined,
                 !.availableCommands = Undefined,
                 !.modes = Undefined, !.models = Undefined]

\* updateSettings replaces the store state before its own await (saveSettings)
switchAgent(agentId) ==
    /\ calls.switch.pc = "idle"
    /\ agentId # settings.activeAgentId
    /\ settings' = [settings EXCEPT !.activeAgentId = agentId]
    /\ calls' = [calls EXCEPT !.switch = [pc |-> "updateSettings", agentId |-> agentId]]
    /\ last' = Step("switchAgent", "awaiting")
    /\ UNCHANGED <<storeVars, session, errorInfo, adapter, hist, chatVars>>

\* what the settings tab can set for all agents: key, base URL and model
CredentialUpdates ==
    [apiKey : {"", "sk-1", "sk-2"}, baseUrl : {"", "https://proxy"}, model : {"", "m"}]

\* SettingsStore.updateSettings from the settings tab: the store state is
\* replaced by a new object and the subscribers are notified
updateSettings(updates) ==
    /\ settings' = [settings EXCEPT !.apiKey = updates.apiKey,
                                    !.baseUrl = updates.baseUrl, !.model = updates.model]
    /\ settings' # settings
    /\ last' = Step("updateSettings", "none")
    /\ UNCHANGED <<storeVars, session, errorInfo, adapter, calls, hist, chatVars>>

switchAgent_afterUpdate(ok) ==
    /\ calls.switch.pc = "updateSettings"
    /\ calls' = [calls EXCEPT !.switch = IdleSwitch]
    /\ session' = IF ok THEN switched(session, calls.switch.agentId) ELSE session
    /\ last' = Step("switchAgent_afterUpdate", IF ok THEN "ok" ELSE "rejected")
    /\ UNCHANGED <<storeVars, errorInfo, settings, adapter, hist, chatVars>>

\* ------------------------------------------------- adapter error callback
\* the handler registered with agentClient.onError
handleError ==
    /\ \/ adapter.initialized
       \/ \E c \in CreateSlots : calls.create[c].pc \in {"initialize", "newSession"}
       \/ calls.load.pc \in {"initialize", "loadSession"}
    /\ session' = [session EXCEPT !.state = "error"]
    /\ errorInfo' = "Agent Error"
    /\ last' = Step("handleError", "none")
    /\ UNCHANGED <<storeVars, settings, adapter, calls, hist, chatVars>>

\* ------------------------------------------------ session-level updaters
updateAvailableCommands(prev, commands) ==
    [prev EXCEPT !.availableCommands = commands]

updateCurrentMode(prev, modeId) ==
    IF prev.modes = Undefined THEN prev ELSE [prev EXCEPT !.modes = modeId]

updateCurrentModel(prev, modelId) ==
    IF prev.models = Undefined THEN prev ELSE [prev EXCEPT !.models = modelId]

updateSessionFromLoad(sessionId, modes, models) ==
    /\ session' = [session EXCEPT !.sessionId = sessionId, !.state = "ready",
                      !.modes = IF modes # Undefined THEN modes ELSE @,
                      !.models = IF models # Undefined THEN models ELSE @]
    /\ last' = Step("updateSessionFromLoad", "none")
    /\ UNCHANGED <<storeVars, errorInfo, settings, adapter, calls, hist, chatVars>>

\* ------------------------------------------------------ setMode / setModel
\* the rollback in the catch branch of setMode / setModel
rollback_never(prev, previousId, field) == prev

rollback(prev, previousId, field) ==
    IF previousId = Undefined THEN prev
    ELSE IF field = "modes" THEN updateCurrentMode(prev, previousId)
    ELSE updateCurrentModel(prev, previousId)

\* the mode selector exists only while the rendered session carries modes
setMode(modeId) ==
    /\ calls.mode.pc = "idle"
    /\ session.modes # Undefined
    /\ IF session.sessionId = NoSession
       THEN /\ last' = Step("setMode", "noSession")
            /\ UNCHANGED <<session, calls>>
       ELSE /\ session' = updateCurrentMode(session, modeId)
            /\ calls' = [calls EXCEPT !.mode =
                           [pc |-> "setSessionMode", sid |-> session.sessionId,
                            id |-> modeId, previous |-> session.modes,
                            before |-> session.modes]]
            /\ last' = Step("setMode", "awaiting")
    /\ UNCHANGED <<storeVars, errorInfo, settings, adapter, hist, chatVars>>

setMode_afterSetSessionMode(ok) ==
    /\ calls.mode.pc = "setSessionMode"
    /\ calls' = [calls EXCEPT !.mode.pc = "idle"]
    /\ session' = IF ok THEN session ELSE rollback(session, calls.mode.previous, "modes")
    /\ last' = [Step("setMode_afterSetSessionMode", IF ok THEN "ok" ELSE "rejected")
                   EXCEPT !.sessChanged = session' # session]
    /\ UNCHANGED <<storeVars, errorInfo, settings, adapter, hist, chatVars>>

setModel(modelId) ==
    /\ calls.model.pc = "idle"
    /\ session.models # Undefined
    /\ IF session.sessionId = NoSession
       THEN /\ last' = Step("setModel", "noSession")
            /\ UNCHANGED <<session, calls>>
       ELSE /\ session' = updateCurrentModel(session, modelId)
            /\ calls' = [calls EXCEPT !.model =
                           [pc |-> "setSessionModel", sid |-> session.sessionId,
                            id |-> modelId, previous |-> session.models,
                            before |-> session.models]]
            /\ last' = Step("setModel", "awaiting")
    /\ UNCHANGED <<storeVars, errorInfo, settings, adapter, hist, chatVars>>

setModel_afterSetSessionModel(ok) ==
    /\ calls.model.pc = "setSessionModel"
    /\ calls' = [calls EXCEPT !.model.pc = "idle"]
    /\ session' = IF ok THEN session ELSE rollback(session, calls.model.previous, "models")
    /\ last' = [Step("setModel_afterSetSessionModel", IF ok THEN "ok" ELSE "rejected")
                   EXCEPT !.sessChanged = session' # session]
    /\ UNCHANGED <<storeVars, errorInfo, settings, adapter, hist, chatVars>>

\* ------------------------------------------------------- update router
ContentTypes == {"agent_message_chunk", "agent_thought_chunk", "tool_call",
                 "tool_call_update", "plan"}
SessionLevelTypes == {"available_commands_update", "current_mode_update"}

\* notifications the adapter can deliver: tagged with a session id it issued
Updates ==
    [sessionId : 1..(adapter.nextSid - 1), type : ContentTypes, value : {Undefined}]
    \cup [sessionId : 1..(adapter.nextSid - 1), type : {"available_commands_update"},
          value : CommandLists]
    \cup [sessionId : 1..(adapter.nextSid - 1), type : {"current_mode_update"},
          value : ModeIds]

\* chat.handleSessionUpdate: a content notification adds a block to the list
handleSessionUpdate(msgs, update) ==
    IF update.type \in ContentTypes THEN Append(msgs, update.sessionId) ELSE msgs

\* the session-level branch shared by both paths of the handler
routeSessionLevel(prev, update) ==
    IF update.type = "available_commands_update"
    THEN updateAvailableCommands(prev, update.value)
    ELSE IF update.type = "current_mode_update"
    THEN updateCurrentMode(prev, update.value)
    ELSE prev

isStale_never(sessionId, update) == FALSE

\* the session-id filter at the head of the handler
isStale(sessionId, update) ==
    sessionId # NoSession /\ update.sessionId # sessionId

routeWhileLoading_all(msgs, update) == handleSessionUpdate(msgs, update)

\* message list after a notification that arrives during session/load
routeWhileLoading(msgs, update) == msgs

sessionLevelWhileLoading_none(prev, update) == prev

\* session after a notification that arrives during session/load
sessionLevelWhileLoading(prev, update) == routeSessionLevel(prev, update)

onSessionUpdate(update) ==
    /\ update \in Updates
    /\ LET newMsgs == IF isStale(session.sessionId, update) THEN messages
                      ELSE IF isLoadingSessionHistory
                      THEN routeWhileLoading(messages, update)
                      ELSE handleSessionUpdate(messages, update)
           newSess == IF isStale(session.sessionId, update) THEN session
                      ELSE IF isLoadingSessionHistory
                      THEN sessionLevelWhileLoading(session, update)
                      ELSE routeSessionLevel(session, update)
       IN  /\ Len(newMsgs) <= MaxMessages
           /\ messages' = newMsgs
           /\ session' = newSess
           /\ last' = [op |-> "onSessionUpdate", res |-> "none", u |-> update,
                       bound |-> session.sessionId,
                       loading |-> isLoadingSessionHistory,
                       preModes |-> session.modes,
                       msgsChanged |-> newMsgs # messages,
                       sessChanged |-> newSess # session]
    /\ UNCHANGED <<storeVars, errorInfo, settings, adapter, calls, hist, isLoadingSessionHistory,
                   isSending>>

\* the effect that registers the session-update callback ran again after a
\* render in which session.sessionId or isLoadingSessionHistory had changed:
\* the new callback closes over the values of that render
onSessionUpdate_effect ==
    /\ calls.handler.sessionId # session.sessionId
          \/ calls.handler.loading # isLoadingSessionHistory
    /\ calls' = [calls EXCEPT !.handler = [sessionId |-> session.sessionId,
                                           loading |-> isLoadingSessionHistory]]
    /\ last' = Step("onSessionUpdate_effect", "none")
    /\ UNCHANGED <<storeVars, session, errorInfo, settings, adapter, hist, chatVars>>

\* what the callback does with a notification, given the session id and the
\* load flag it decides by
routedMessages(sessionId, loading, msgs, update) ==
    IF isStale(sessionId, update) THEN msgs
    ELSE IF loading THEN routeWhileLoading(msgs, update)
    ELSE handleSessionUpdate(msgs, update)

routedSession(sessionId, loading, prev, update) ==
    IF isStale(sessionId, update) THEN prev
    ELSE IF loading THEN sessionLevelWhileLoading(prev, update)
    ELSE routeSessionLevel(prev, update)

\* the adapter delivers a notification to the callback registered last: it
\* decides by the values it closed over and updates the current state
onSessionUpdate_callback(update) ==
    /\ update \in Updates
    /\ LET h == calls.handler
           newMsgs == routedMessages(h.sessionId, h.loading, messages, update)
       IN  /\ Len(newMsgs) <= MaxMessages
           /\ messages' = newMsgs
           /\ session' = routedSession(h.sessionId, h.loading, session, update)
           /\ last' = [op |-> "onSessionUpdate_callback", res |-> "none", u |-> update,
                       bound |-> h.sessionId, loading |-> h.loading,
                       preModes |-> session.modes,
                       msgsChanged |-> newMsgs # messages,
                       sessChanged |-> session' # session]
    /\ UNCHANGED <<storeVars, errorInfo, settings, adapter, calls, hist, isLoadingSessionHistory,
                   isSending>>

handleLoadStart ==
    /\ ~isLoadingSessionHistory
    /\ isLoadingSessionHistory' = TRUE
    /\ messages' = <<>>
    /\ last' = Step("handleLoadStart", "none")
    /\ UNCHANGED <<storeVars, session, errorInfo, settings, adapter, calls, hist, isSending>>

handleLoadEnd ==
    /\ isLoadingSessionHistory
    /\ isLoadingSessionHistory' = FALSE
    /\ last' = Step("handleLoadEnd", "none")
    /\ UNCHANGED <<storeVars, session, errorInfo, settings, adapter, calls, hist, messages,
                   isSending>>

\* the send control is enabled only while the session is ready
sendMessage ==
    /\ ~isSending
    /\ session.state = "ready"
    /\ isSending' = TRUE
    /\ calls' = [calls EXCEPT !.turn = [sessionId |-> session.sessionId, save |-> NoSave],
                              !.cancel.settled = 0]
    /\ last' = Step("sendMessage", "none")
    /\ UNCHANGED <<storeVars, session, errorInfo, settings, adapter, hist, messages,
                   isLoadingSessionHistory>>

\* the save-on-turn-end effect of the view, run in the render where
\* isSending went from true to false: it saves under the session id of that
\* render, and only with a session id and a non-empty list
saveOnTurnEnd(prev, msgs) ==
    IF prev.sessionId # NoSession /\ Len(msgs) > 0
    THEN [sessionId |-> prev.sessionId, messages |-> msgs]
    ELSE NoSave

\* the prompt request of the turn settled
turnEnds ==
    /\ isSending
    /\ isSending' = FALSE
    /\ calls' = [calls EXCEPT !.turn.save = saveOnTurnEnd(session, messages)]
    /\ last' = Step("turnEnds", "none")
    /\ UNCHANGED <<storeVars, session, errorInfo, settings, adapter, hist, messages,
                   isLoadingSessionHistory>>

\* ------------------------------------------------- adapter.initialize
\* the timeout budget of the handshake, in seconds
INITIALIZE_TIMEOUT == 30

\* initialize(): spawn the agent process, send the request, arm the timeout
initialize ==
    /\ calls.initialize.pc # "awaiting"
    /\ calls.initialize.timer # "pending"
    /\ calls.initialize.n < MaxStarts
    /\ calls' = [calls EXCEPT !.initialize =
                    [pc |-> "awaiting", error |-> "none", process |-> "running",
                     timer |-> "pending", clock |-> 0, n |-> @.n + 1]]
    /\ last' = Step("initialize", "awaiting")
    /\ UNCHANGED <<storeVars, session, errorInfo, settings, adapter, hist, chatVars>>

\* one second passes; a pending timer lets no time pass beyond its deadline
tick ==
    /\ calls.initialize.pc # "idle"
    /\ calls.initialize.clock < INITIALIZE_TIMEOUT
    /\ calls' = [calls EXCEPT !.initialize.clock = @ + 1]
    /\ last' = Step("tick", "none")
    /\ UNCHANGED <<storeVars, session, errorInfo, settings, adapter, hist, chatVars>>

responded_timerLeft(call, ok) ==
    IF ok
    THEN [call EXCEPT !.pc = "resolved"]
    ELSE [call EXCEPT !.pc = "rejected", !.error = "failed", !.process = "killed"]

\* the handshake settled before the timer fired: success clears the timer,
\* failure also kills the process
responded(call, ok) ==
    IF ok
    THEN [call EXCEPT !.pc = "resolved", !.timer = "cleared"]
    ELSE [call EXCEPT !.pc = "rejected", !.error = "failed", !.timer = "cleared",
                      !.process = "killed"]

initialize_afterResponse(ok) ==
    /\ calls.initialize.pc = "awaiting"
    /\ calls' = [calls EXCEPT !.initialize = responded(@, ok)]
    /\ last' = Step("initialize_afterResponse", IF ok THEN "ok" ELSE "rejected")
    /\ UNCHANGED <<storeVars, session, errorInfo, settings, adapter, hist, chatVars>>

\* the timer fired: reject with the timeout error and kill the process
initialize_onTimeout ==
    /\ calls.initialize.timer = "pending"
    /\ calls.initialize.clock = INITIALIZE_TIMEOUT
    /\ calls' = [calls EXCEPT !.initialize.pc = "rejected", !.initialize.error = "timeout",
                              !.initialize.timer = "fired", !.initialize.process = "killed"]
    /\ last' = Step("initialize_onTimeout", "rejected")
    /\ UNCHANGED <<storeVars, session, errorInfo, settings, adapter, hist, chatVars>>

\* ------------------------------------------------------------- ChatInput
\* contents of the input field: empty, blank, and text
InputValues == {<<>>, <<" ">>, <<"h", "i", " ">>}
\* number of attached images
AttachedImages == 0..1

RECURSIVE trimStart(_)
trimStart(text) ==
    IF text # <<>> /\ Head(text) = " " THEN trimStart(Tail(text)) ELSE text

RECURSIVE trimEnd(_)
trimEnd(text) ==
    IF text # <<>> /\ text[Len(text)] = " "
    THEN trimEnd(SubSeq(text, 1, Len(text) - 1)) ELSE text

trim(text) == trimEnd(trimStart(text))

isSessionReady == session.state = "ready"

isButtonDisabled_whileSending(sending, inputValue, images, isRestoringSession) ==
    \/ (trim(inputValue) = <<>> /\ images = 0)
    \/ ~isSessionReady
    \/ isRestoringSession

\* the disabled attribute of the send/stop button
isButtonDisabled(sending, inputValue, images, isRestoringSession) ==
    /\ ~sending
    /\ \/ (trim(inputValue) = <<>> /\ images = 0)
       \/ ~isSessionReady
       \/ isRestoringSession

\* a click on the send/stop button, which a disabled button does not
\* deliver: stop while sending, else send unless there is nothing to send
handleSendOrStop(inputValue, images, isRestoringSession) ==
    /\ ~isButtonDisabled(isSending, inputValue, images, isRestoringSession)
    /\ IF isSending
       THEN cancelOperation
       ELSE /\ ~(trim(inputValue) = <<>> /\ images = 0)
            /\ sendMessage

\* ------------------------------------------------------ autoInstallAgent
\* the timeout of the install, in milliseconds
INSTALL_TIMEOUT == 120000
ExitCodes == {0, 1}

\* a promise settles once: later resolve calls change nothing
resolve(install, result) ==
    IF install.result = "none" THEN [install EXCEPT !.result = result] ELSE install

\* a second passes; a pending timer lets no time pass beyond its deadline
autoInstallAgent_tick ==
    /\ calls.install.child # "none"
    /\ calls.install.clock < INSTALL_TIMEOUT
    /\ calls' = [calls EXCEPT !.install.clock = @ + 1000]
    /\ last' = Step("autoInstallAgent_tick", "none")
    /\ UNCHANGED <<storeVars, session, errorInfo, settings, adapter, hist, chatVars>>

\* the timer callback: flag, SIGTERM, resolve with failure
autoInstallAgent_onTimeout ==
    /\ calls.install.timer = "pending"
    /\ calls.install.clock = INSTALL_TIMEOUT
    /\ calls' = [calls EXCEPT !.install =
                    resolve([@ EXCEPT !.hasTimeout = TRUE, !.timer = "fired",
                                      !.child = IF @ = "running" THEN "terminating" ELSE @],
                            "failure")]
    /\ last' = Step("autoInstallAgent_onTimeout", "none")
    /\ UNCHANGED <<storeVars, session, errorInfo, settings, adapter, hist, chatVars>>

exitResult_any(code) == "success"

\* what the close handler resolves with
exitResult(code) == IF code = 0 THEN "success" ELSE "failure"

clearTimeout(timer) == IF timer = "pending" THEN "cleared" ELSE timer

\* the close event of the process: clear the timer, nothing more after a
\* timeout, else resolve by the exit code
autoInstallAgent_onClose(code) ==
    /\ calls.install.child \in {"running", "terminating", "errored"}
    /\ LET closed == [calls.install EXCEPT !.child = "closed", !.code = code,
                                            !.timer = clearTimeout(@)]
       IN  calls' = [calls EXCEPT !.install =
                        IF closed.hasTimeout THEN closed
                        ELSE resolve(closed, exitResult(code))]
    /\ last' = Step("autoInstallAgent_onClose", "none")
    /\ UNCHANGED <<storeVars, session, errorInfo, settings, adapter, hist, chatVars>>

\* the error event (the process could not be spawned): clear the timer,
\* nothing more after a timeout, else resolve with failure
autoInstallAgent_onError ==
    /\ calls.install.child = "running"
    /\ LET errored == [calls.install EXCEPT !.child = "errored", !.timer = clearTimeout(@)]
       IN  calls' = [calls EXCEPT !.install =
                        IF errored.hasTimeout THEN errored ELSE resolve(errored, "failure")]
    /\ last' = Step("autoInstallAgent_onError", "none")
    /\ UNCHANGED <<storeVars, session, errorInfo, settings, adapter, hist, chatVars>>

\* ------------------------------------------- PermissionRequestSection
PermissionKinds == {"allow_once", "allow_always", "reject_once", "reject_always"}

\* the option lists an agent can attach to a permission request
OptionLists == UNION {[1..n -> PermissionKinds] : n \in 0..MaxOptions}

\* index of the option that handleSubmitCustomText answers with: the first
\* rejecting one, else the first of the list (0: the list is empty)
rejectOption(options) ==
    LET rejecting == {i \in DOMAIN options : options[i] \in {"reject_once", "reject_always"}}
    IN  IF rejecting # {} THEN CHOOSE i \in rejecting : \A j \in rejecting : i <= j
        ELSE IF options # <<>> THEN 1 ELSE 0

\* Send & Reject on a request that awaits its decision; an empty list makes
\* rejectOption.optionId throw, which the catch block logs
handleSubmitCustomText(options, customText) ==
    /\ calls.permission.pc \in {"idle", "done"}
    /\ trim(customText) # <<>>
    /\ calls' = [calls EXCEPT !.permission =
                    [pc |-> IF options = <<>> THEN "done" ELSE "onApprovePermission",
                     options |-> options, chosen |-> rejectOption(options),
                     answered |-> "none", sent |-> FALSE]]
    /\ last' = Step("handleSubmitCustomText", IF options = <<>> THEN "thrown" ELSE "awaiting")
    /\ UNCHANGED <<storeVars, session, errorInfo, settings, adapter, hist, chatVars>>

\* onApprovePermission settled: the request is answered and the text is
\* handed to onSendMessage, or the rejection is caught
handleSubmitCustomText_afterApprove(ok) ==
    /\ calls.permission.pc = "onApprovePermission"
    /\ calls' = IF ok
                THEN [calls EXCEPT !.permission.pc = "onSendMessage",
                                   !.permission.answered = calls.permission.options[
                                                               calls.permission.chosen],
                                   !.permission.sent = TRUE]
                ELSE [calls EXCEPT !.permission.pc = "done"]
    /\ last' = Step("handleSubmitCustomText_afterApprove", IF ok THEN "ok" ELSE "rejected")
    /\ UNCHANGED <<storeVars, session, errorInfo, settings, adapter, hist, chatVars>>

handleSubmitCustomText_afterSend(ok) ==
    /\ calls.permission.pc = "onSendMessage"
    /\ calls' = [calls EXCEPT !.permission.pc = "done"]
    /\ last' = Step("handleSubmitCustomText_afterSend", IF ok THEN "ok" ELSE "rejected")
    /\ UNCHANGED <<storeVars, session, errorInfo, settings, adapter, hist, chatVars>>

\* ------------------------------------------------- settings tab: agents
\* what can be typed into the Agent ID field: nothing, a blank, the id of a
\* built-in agent, generated ids, and a name of the user's, with blanks around
TypedIds == {<<>>, <<" ">>, <<"claude">>, <<" ", "custom-agent">>, <<"custom-agent-2">>,
             <<"mine", " ">>}

\* "custom-agent", then "custom-agent-<counter>" with the counter from 2 on:
\* the first candidate that no custom agent carries
generateCustomAgentId(customAgents) ==
    LET candidates == <<"custom-agent", "custom-agent-2", "custom-agent-3",
                        "custom-agent-4", "custom-agent-5">>
        existing == {customAgents[i] : i \in DOMAIN customAgents}
        free == {k \in DOMAIN candidates : candidates[k] \notin existing}
    IN  candidates[CHOOSE k \in free : \A j \in free : k <= j]

\* the plugin falls back to the default agent when the active id names none
ensureActiveAgentId(s) ==
    IF findAgentSettings(s, s.activeAgentId) THEN s
    ELSE [s EXCEPT !.activeAgentId = "claude"]

\* the Add custom agent button
addCustomAgent ==
    /\ Len(settings.customAgents) < MaxCustomAgents
    /\ settings' = ensureActiveAgentId(
                       [settings EXCEPT !.customAgents =
                           Append(@, generateCustomAgentId(settings.customAgents))])
    /\ last' = Step("addCustomAgent", "none")
    /\ UNCHANGED <<storeVars, session, errorInfo, adapter, calls, hist, chatVars>>

\* onChange of the Agent ID field of the custom agent at index: the trimmed
\* value becomes the id, a generated id stands in for an empty one, and the
\* active agent id follows the rename
renameCustomAgent(index, value) ==
    /\ index \in DOMAIN settings.customAgents
    /\ LET previousId == settings.customAgents[index]
           trimmed == trim(value)
           nextId == IF Len(trimmed) = 0
                     THEN generateCustomAgentId(settings.customAgents)
                     ELSE trimmed[1]
           renamed == [settings EXCEPT !.customAgents[index] = nextId]
       IN  settings' = ensureActiveAgentId(
                          IF settings.activeAgentId = previousId
                          THEN [renamed EXCEPT !.activeAgentId = nextId]
                          ELSE renamed)
    /\ last' = Step("renameCustomAgent", "none")
    /\ UNCHANGED <<storeVars, session, errorInfo, adapter, calls, hist, chatVars>>

\* the trash button: customAgents.splice(index, 1)
deleteCustomAgent(index) ==
    /\ index \in DOMAIN settings.customAgents
    /\ settings' = ensureActiveAgentId(
                       [settings EXCEPT !.customAgents =
                           SubSeq(@, 1, index - 1) \o SubSeq(@, index + 1, Len(@))])
    /\ last' = Step("deleteCustomAgent", "none")
    /\ UNCHANGED <<storeVars, session, errorInfo, adapter, calls, hist, chatVars>>

\* ---------------------------------------------------------- SettingsStore
\* metadata entries kept at most (SettingsStore.MAX_SAVED_SESSIONS)
MAX_SAVED_SESSIONS == 50
\* characters the file name keeps: the class [a-zA-Z0-9_-]
SafeChars == {"a", "b", "1", "_", "-"}
\* session ids as character sequences; the first two share one file name
StoreIds == {<<"a", "/">>, <<"a", "_">>, <<"b", "1">>}
\* session ids of the entries a vault has collected before startup
FillerId(k) ==
    LET c == <<"a", "b", "1", "_", "-">>
    IN  <<c[((k \div 25) % 5) + 1], c[((k \div 5) % 5) + 1], c[(k % 5) + 1]>>
FillerIds == {FillerId(k) : k \in 1..MAX_SAVED_SESSIONS}
\* characters of a recovered title taken from a message text
TitleLength == 50
\* a text of n characters
Text(n) == [i \in 1..n |-> "x"]
textBlock(text) == [type |-> "text", text |-> text]
imageBlock == [type |-> "image", text |-> <<>>]
\* a ChatMessage; the timestamp is a Date (milliseconds)
Message(id, role, content, ms) ==
    [id |-> id, role |-> role, content |-> content, timestamp |-> [ms |-> ms]]
\* chats saved (only when there are messages): a short question; an answer
\* first and a question of more than TitleLength characters behind an image;
\* a first question without text; a question of exactly TitleLength characters
\* (the last element of StoreMessages)
ShortChat == <<Message("m1", "user", <<textBlock(Text(3))>>, 1)>>
LongChat ==
    <<Message("m1", "assistant", <<textBlock(Text(2))>>, 1),
      Message("m2", "user", <<imageBlock, textBlock(Text(TitleLength + 1))>>, 2)>>
NoTextChat ==
    <<Message("m1", "user", <<imageBlock>>, 1),
      Message("m2", "user", <<textBlock(Text(3))>>, 2)>>
StoreMessages ==
    {ShortChat, LongChat, NoTextChat,
     <<Message("m1", "user", <<textBlock(Text(TitleLength))>>, 1)>>}

\* msg.timestamp.toISOString(): the ISO string keeps the milliseconds
toISOString(date) == [iso |-> date.ms]
\* new Date(msg.timestamp)
newDate(iso) == [ms |-> iso.iso]

\* messages.map(msg => ({...msg, timestamp: msg.timestamp.toISOString()}))
serialized(msgs) ==
    [i \in DOMAIN msgs |-> [msgs[i] EXCEPT !.timestamp = toISOString(@)]]

\* the file saveSessionMessages writes; a parsed file says whether it is JSON
\* at all, whether version is a number and whether messages is an array
SessionMessagesFile(sessionId, msgs) ==
    [json |-> TRUE, versionIsNumber |-> TRUE, version |-> 1, messagesIsArray |-> TRUE,
     sessionId |-> sessionId, messages |-> serialized(msgs)]

\* titles are character sequences
ChatTitle == <<"c", "h", "a", "t">>
RecoveredSession ==
    <<"R", "e", "c", "o", "v", "e", "r", "e", "d", " ", "s", "e", "s", "s", "i", "o", "n">>
\* the list after n sessions were saved one after the other: newest first
Saved(n) == [i \in 1..n |-> [sessionId |-> FillerId(n + 1 - i), title |-> ChatTitle]]

\* sessionId.replace(/[^a-zA-Z0-9_-]/g, "_"); directory and suffix are fixed
getSessionFilePath(sessionId) ==
    [i \in DOMAIN sessionId |->
        IF sessionId[i] \in SafeChars THEN sessionId[i] ELSE "_"]

\* adapter.write(filePath, data): creates or overwrites the file
write(fs, filePath, data) ==
    [p \in DOMAIN fs \cup {filePath} |-> IF p = filePath THEN data ELSE fs[p]]

\* adapter.remove(filePath)
remove(fs, filePath) == [p \in DOMAIN fs \ {filePath} |-> fs[p]]

\* savedSessions.map(s => s.sessionId)
sessionIdsOf(sessions) == {sessions[i].sessionId : i \in DOMAIN sessions}

\* sessions.filter(s => s.sessionId !== sessionId)
RECURSIVE withoutSession(_, _)
withoutSession(sessions, sessionId) ==
    IF sessions = <<>> THEN <<>>
    ELSE IF Head(sessions).sessionId = sessionId
    THEN withoutSession(Tail(sessions), sessionId)
    ELSE <<Head(sessions)>> \o withoutSession(Tail(sessions), sessionId)

\* sessions.findIndex(s => s.sessionId === sessionId), 0 for -1
findIndex(sessions, sessionId) ==
    IF \E i \in DOMAIN sessions : sessions[i].sessionId = sessionId
    THEN CHOOSE i \in DOMAIN sessions :
            /\ sessions[i].sessionId = sessionId
            /\ \A j \in DOMAIN sessions : sessions[j].sessionId = sessionId => i <= j
    ELSE 0

\* list after saveSession(info): replace in place, or add in front and drop
\* the oldest beyond the maximum
savedWith(sessions, info) ==
    LET existingIndex == findIndex(sessions, info.sessionId)
        added == <<info>> \o sessions
    IN  IF existingIndex > 0
        THEN [sessions EXCEPT ![existingIndex] = info]
        ELSE IF Len(added) > MAX_SAVED_SESSIONS
        THEN SubSeq(added, 1, Len(added) - 1)
        ELSE added

\* a step of another store operation ends a row of repair runs
interrupted ==
    [repairLog EXCEPT !.dirty = (calls.repair.pc # "idle"), !.results = <<>>]

storeOp == [hist EXCEPT !.storeOps = @ + 1]

sessionVars == <<session, errorInfo, settings, adapter, chatVars>>

\* saveSession(info): the list is replaced before the first await
saveSession(sessionId) ==
    /\ sessionId \in StoreIds \cup FillerIds
    /\ hist.storeOps < MaxStoreOps
    /\ hist' = storeOp
    /\ savedSessions' = savedWith(savedSessions, [sessionId |-> sessionId, title |-> ChatTitle])
    /\ repairLog' = interrupted
    /\ last' = Step("saveSession", "none")
    /\ UNCHANGED <<sessionVars, calls, sessionsDir, files>>

\* deleteSession(sessionId): metadata first, then the message file
deleteSession(sessionId) ==
    /\ sessionId \in StoreIds \cup FillerIds
    /\ calls.deleteSession.pc = "idle"
    /\ hist.storeOps < MaxStoreOps
    /\ hist' = storeOp
    /\ savedSessions' = withoutSession(savedSessions, sessionId)
    /\ calls' = [calls EXCEPT !.deleteSession = [pc |-> "exists", sessionId |-> sessionId]]
    /\ repairLog' = interrupted
    /\ last' = Step("deleteSession", "awaiting")
    /\ UNCHANGED <<sessionVars, sessionsDir, files>>

\* deleteSessionMessages: adapter.exists(filePath) answered
deleteSession_afterExists ==
    /\ calls.deleteSession.pc = "exists"
    /\ LET filePath == getSessionFilePath(calls.deleteSession.sessionId)
       IN  IF filePath \in DOMAIN files
           THEN /\ calls' = [calls EXCEPT !.deleteSession.pc = "remove"]
                /\ last' = Step("deleteSession_afterExists", "exists")
           ELSE /\ calls' = [calls EXCEPT !.deleteSession = IdleDelete]
                /\ last' = Step("deleteSession_afterExists", "missing")
    /\ repairLog' = interrupted
    /\ UNCHANGED <<sessionVars, hist, savedSessions, sessionsDir, files>>

\* adapter.remove(filePath) done
deleteSession_afterRemove(ok) ==
    /\ calls.deleteSession.pc = "remove"
    /\ files' = IF ok THEN remove(files, getSessionFilePath(calls.deleteSession.sessionId))
                 ELSE files
    /\ calls' = [calls EXCEPT !.deleteSession = IdleDelete]
    /\ repairLog' = interrupted
    /\ last' = Step("deleteSession_afterRemove", IF ok THEN "ok" ELSE "rejected")
    /\ UNCHANGED <<sessionVars, hist, savedSessions, sessionsDir>>

\* ---------------------------------------------------- loadSessionMessages
\* data.messages.map(msg => ({...msg, timestamp: new Date(msg.timestamp)}))
deserialized_noIds(msgs) ==
    [i \in DOMAIN msgs |-> [msgs[i] EXCEPT !.timestamp = newDate(@), !.id = "m1"]]

deserialized(msgs) ==
    [i \in DOMAIN msgs |-> [msgs[i] EXCEPT !.timestamp = newDate(@)]]

knownVersion_any(data) == TRUE

\* data.version !== 1 is rejected
knownVersion(data) == data.version = 1

\* what the function returns for the content read
loaded(data) ==
    IF ~data.json THEN Null
    ELSE IF ~data.versionIsNumber \/ ~data.messagesIsArray THEN Null
    ELSE IF ~knownVersion(data) THEN Null
    ELSE [isNull |-> FALSE, messages |-> deserialized(data.messages)]

loadSessionMessages(sessionId) ==
    /\ sessionId \in StoreIds
    /\ calls.loadSessionMessages.pc = "idle"
    /\ hist.storeOps < MaxStoreOps
    /\ hist' = storeOp
    /\ calls' = [calls EXCEPT !.loadSessionMessages =
                    [pc |-> "exists", sessionId |-> sessionId, result |-> Null]]
    /\ last' = Step("loadSessionMessages", "awaiting")
    /\ UNCHANGED <<sessionVars, storeVars>>

\* adapter.exists(filePath) answered
loadSessionMessages_afterExists ==
    /\ calls.loadSessionMessages.pc = "exists"
    /\ IF getSessionFilePath(calls.loadSessionMessages.sessionId) \in DOMAIN files
       THEN /\ calls' = [calls EXCEPT !.loadSessionMessages.pc = "read"]
            /\ last' = Step("loadSessionMessages_afterExists", "awaiting")
       ELSE /\ calls' = [calls EXCEPT !.loadSessionMessages.pc = "idle",
                                      !.loadSessionMessages.result = Null]
            /\ last' = Step("loadSessionMessages_afterExists", "returned")
    /\ UNCHANGED <<sessionVars, hist, storeVars>>

\* adapter.read(filePath) settled; it throws when the file is gone
loadSessionMessages_afterRead ==
    /\ calls.loadSessionMessages.pc = "read"
    /\ LET filePath == getSessionFilePath(calls.loadSessionMessages.sessionId)
           result == IF filePath \in DOMAIN files THEN loaded(files[filePath]) ELSE Null
       IN  calls' = [calls EXCEPT !.loadSessionMessages.pc = "idle",
                                  !.loadSessionMessages.result = result]
    /\ last' = Step("loadSessionMessages_afterRead", "returned")
    /\ UNCHANGED <<sessionVars, hist, storeVars>>

\* saveSessionMessages(sessionId, agentId, messages): first the directory
saveSessionMessages(sessionId, msgs) ==
    /\ sessionId \in StoreIds
    /\ msgs \in StoreMessages
    /\ calls.saveSessionMessages.pc = "idle"
    /\ hist.storeOps < MaxStoreOps
    /\ hist' = storeOp
    /\ calls' = [calls EXCEPT !.saveSessionMessages =
                    [pc |-> "ensureSessionsDir", sessionId |-> sessionId, messages |-> msgs]]
    /\ repairLog' = interrupted
    /\ last' = Step("saveSessionMessages", "awaiting")
    /\ UNCHANGED <<sessionVars, savedSessions, sessionsDir, files>>

\* the directory is there: write the version 1 file
saveSessionMessages_afterEnsureSessionsDir ==
    /\ calls.saveSessionMessages.pc = "ensureSessionsDir"
    /\ sessionsDir' = TRUE
    /\ LET c == calls.saveSessionMessages
       IN  files' = write(files, getSessionFilePath(c.sessionId),
                          SessionMessagesFile(c.sessionId, c.messages))
    /\ calls' = [calls EXCEPT !.saveSessionMessages = IdleSaveMessages]
    /\ repairLog' = interrupted
    /\ last' = Step("saveSessionMessages_afterEnsureSessionsDir", "none")
    /\ UNCHANGED <<sessionVars, hist, savedSessions>>

\* ------------------------------------------------- repairSessionMetadata
\* the structure check of a parsed file
validStructure(data) ==
    data.versionIsNumber /\ data.messagesIsArray /\ data.sessionId # <<>>

alreadyExists_never(existingIds, data) == FALSE

\* existingIds.has(data.sessionId)
alreadyExists(existingIds, data) == data.sessionId \in existingIds

\* array.find(test): the first of the indexes whose element satisfies test,
\* 0 for none
find(matching) ==
    IF matching = {} THEN 0 ELSE CHOOSE i \in matching : \A j \in matching : i <= j

withEllipsis_none(text) == SubSeq(text, 1, TitleLength)

\* text.substring(0, 50) + "..."
withEllipsis(text) == SubSeq(text, 1, TitleLength) \o <<".", ".", ".">>

\* the title is the first text block of the first user message, cut when it
\* is longer than TitleLength; "Recovered session" when there is none
recoveredTitle(data) ==
    LET firstUserMsg ==
            find({i \in DOMAIN data.messages : data.messages[i].role = "user"})
    IN  IF firstUserMsg = 0 THEN RecoveredSession
        ELSE LET content == data.messages[firstUserMsg].content
                 textContent ==
                     find({i \in DOMAIN content : content[i].type = "text"})
             IN  IF textContent = 0 THEN RecoveredSession
                 ELSE IF Len(content[textContent].text) > TitleLength
                 THEN withEllipsis(content[textContent].text)
                 ELSE content[textContent].text

repairedEntry(data) == [sessionId |-> data.sessionId, title |-> recoveredTitle(data)]

\* the results of the runs of the current row, the last two at most
rowResults(results, n) ==
    IF Len(results) < 2 THEN Append(results, n) ELSE <<results[2], n>>

\* the run returns n
returns(n) ==
    /\ calls' = [calls EXCEPT !.repair = IdleRepair]
    /\ repairLog' = [repairLog EXCEPT
                        !.dirty = FALSE,
                        !.results = IF repairLog.dirty THEN <<>> ELSE rowResults(@, n)]

repairSessionMetadata ==
    /\ calls.repair.pc = "idle"
    /\ hist.repairs < MaxRepairs
    /\ hist' = [hist EXCEPT !.repairs = @ + 1]
    /\ calls' = [calls EXCEPT !.repair.pc = "exists"]
    /\ repairLog' = [repairLog EXCEPT !.before = savedSessions, !.dirty = FALSE]
    /\ last' = Step("repairSessionMetadata", "awaiting")
    /\ UNCHANGED <<sessionVars, savedSessions, sessionsDir, files>>

\* adapter.exists(sessionsDir) answered
repairSessionMetadata_afterExists ==
    /\ calls.repair.pc = "exists"
    /\ IF ~sessionsDir
       THEN /\ returns(0)
            /\ last' = Step("repairSessionMetadata_afterExists", "returned")
       ELSE /\ calls' = [calls EXCEPT !.repair.pc = "list"]
            /\ last' = Step("repairSessionMetadata_afterExists", "awaiting")
            /\ UNCHANGED repairLog
    /\ UNCHANGED <<sessionVars, hist, savedSessions, sessionsDir, files>>

\* adapter.list(sessionsDir) answered; the existing ids are collected once
repairSessionMetadata_afterList ==
    /\ calls.repair.pc = "list"
    /\ LET jsonFiles == DOMAIN files
       IN  IF jsonFiles = {}
           THEN /\ returns(0)
                /\ last' = Step("repairSessionMetadata_afterList", "returned")
           ELSE /\ calls' = [calls EXCEPT !.repair =
                               [pc |-> "read",
                                existingIds |-> sessionIdsOf(savedSessions),
                                pending |-> jsonFiles,
                                repairedSessions |-> <<>>]]
                /\ last' = Step("repairSessionMetadata_afterList", "awaiting")
                /\ UNCHANGED repairLog
    /\ UNCHANGED <<sessionVars, hist, savedSessions, sessionsDir, files>>

\* adapter.read(filePath) settled (it throws when the file is gone); after
\* the last file the repaired entries are put in front of the list
repairSessionMetadata_afterRead(filePath) ==
    /\ calls.repair.pc = "read"
    /\ filePath \in calls.repair.pending
    /\ LET c == calls.repair
           repairs == IF filePath \notin DOMAIN files THEN FALSE
                      ELSE /\ validStructure(files[filePath])
                           /\ ~alreadyExists(c.existingIds, files[filePath])
           repaired == IF repairs
                       THEN Append(c.repairedSessions, repairedEntry(files[filePath]))
                       ELSE c.repairedSessions
           rest == c.pending \ {filePath}
       IN  IF rest # {}
           THEN /\ calls' = [calls EXCEPT !.repair.pending = rest,
                                          !.repair.repairedSessions = repaired]
                /\ last' = Step("repairSessionMetadata_afterRead", "awaiting")
                /\ UNCHANGED <<savedSessions, repairLog>>
           ELSE IF repaired # <<>>
           THEN /\ savedSessions' = repaired \o savedSessions
                /\ calls' = [calls EXCEPT !.repair.pc = "updateSettings",
                                          !.repair.pending = rest,
                                          !.repair.repairedSessions = repaired]
                /\ last' = Step("repairSessionMetadata_afterRead", "awaiting")
                /\ UNCHANGED repairLog
           ELSE /\ returns(0)
                /\ last' = Step("repairSessionMetadata_afterRead", "returned")
                /\ UNCHANGED savedSessions
    /\ UNCHANGED <<sessionVars, hist, sessionsDir, files>>

\* updateSettings resolved: the run returns the number of repaired entries
repairSessionMetadata_afterUpdateSettings ==
    /\ calls.repair.pc = "updateSettings"
    /\ returns(Len(calls.repair.repairedSessions))
    /\ last' = Step("repairSessionMetadata_afterUpdateSettings", "returned")
    /\ UNCHANGED <<sessionVars, hist, savedSessions, sessionsDir, files>>

\* ---------------------------------------------------------- specifications
\* modes / models of a newSession or loadSession result: optional
NewSessionModes == {Undefined, "default"}
NewSessionModels == {Undefined, "opus"}

\* overlapping createSession calls, agent switches and closeSession
NextCreate ==
    \/ \E c \in CreateSlots : createSession(c)
    \/ \E c \in CreateSlots, ok \in BOOLEAN : createSession_afterInitialize(c, ok)
    \/ \E c \in CreateSlots, ok \in BOOLEAN :
          createSession_afterNewSession(c, ok, "default", "opus")
    \/ \E a \in KnownAgents : switchAgent(a)
    \/ \E ok \in BOOLEAN : switchAgent_afterUpdate(ok)
    \/ closeSession
    \/ \E ok \in BOOLEAN : closeSession_afterCancel(ok)
    \/ \E ok \in BOOLEAN : closeSession_afterDisconnect(ok)

SpecCreate == InitPlain /\ [][NextCreate]_vars

\* one session with cancel, close and adapter errors
NextCancel ==
    \/ createSession(1)
    \/ \E ok \in BOOLEAN : createSession_afterInitialize(1, ok)
    \/ \E ok \in BOOLEAN : createSession_afterNewSession(1, ok, "default", "opus")
    \/ cancelOperation
    \/ \E ok \in BOOLEAN : cancelOperation_afterCancel(ok)
    \/ closeSession
    \/ \E ok \in BOOLEAN : closeSession_afterCancel(ok)
    \/ \E ok \in BOOLEAN : closeSession_afterDisconnect(ok)
    \/ handleError
    \/ sendMessage
    \/ turnEnds

SpecCancel == InitPlain /\ [][NextCancel]_vars

\* two createSession calls that overlap: slot 1 holds the call started first
\* (the view's first createSession) and is not started again; slot 2 holds a
\* call started while the first is in flight (createSession takes slot 2 only
\* when slot 1 is taken)
NextOverlap ==
    \/ hist.starts = 0 /\ createSession(1)
    \/ createSession(2)
    \/ \E c \in CreateSlots, ok \in BOOLEAN : createSession_afterInitialize(c, ok)
    \/ \E c \in CreateSlots, ok \in BOOLEAN, modes \in NewSessionModes,
          models \in NewSessionModels : createSession_afterNewSession(c, ok, modes, models)
    \/ \E a \in KnownAgents : switchAgent(a)
    \/ \E ok \in BOOLEAN : switchAgent_afterUpdate(ok)

SpecOverlap == InitPlain /\ [][NextOverlap]_vars

\* createSession and loadSession with every failure path
NextInit ==
    \/ createSession(1)
    \/ \E success \in BOOLEAN : createSession_afterInstall(1, success)
    \/ \E ok \in BOOLEAN : createSession_afterInitialize(1, ok)
    \/ \E ok \in BOOLEAN : createSession_afterNewSession(1, ok, "default", "opus")
    \/ \E sid \in 1..(adapter.nextSid - 1) : loadSession(sid)
    \/ \E ok \in BOOLEAN : loadSession_afterInitialize(ok)
    \/ \E ok \in BOOLEAN : loadSession_afterLoadSession(ok, "default", "opus")
    \/ \E a \in AgentIds : switchAgent(a)
    \/ \E ok \in BOOLEAN : switchAgent_afterUpdate(ok)
    \/ handleError

\* every adapter call and the install subprocess eventually settle
Settles ==
    /\ WF_vars(\E success \in BOOLEAN : createSession_afterInstall(1, success))
    /\ WF_vars(\E ok \in BOOLEAN : createSession_afterInitialize(1, ok))
    /\ WF_vars(\E ok \in BOOLEAN : createSession_afterNewSession(1, ok, "default", "opus"))
    /\ WF_vars(\E ok \in BOOLEAN : loadSession_afterInitialize(ok))
    /\ WF_vars(\E ok \in BOOLEAN : loadSession_afterLoadSession(ok, "default", "opus"))

SpecInit == Init /\ [][NextInit]_vars /\ Settles

\* mode and model changes on a session that may be restarted
NextMode ==
    \/ createSession(1)
    \/ \E ok \in BOOLEAN : createSession_afterInitialize(1, ok)
    \/ \E ok \in BOOLEAN, modes \in NewSessionModes, models \in NewSessionModels :
          createSession_afterNewSession(1, ok, modes, models)
    \/ \E m \in ModeIds : setMode(m)
    \/ \E ok \in BOOLEAN : setMode_afterSetSessionMode(ok)
    \/ \E m \in ModelIds : setModel(m)
    \/ \E ok \in BOOLEAN : setModel_afterSetSessionModel(ok)
    \/ \E u \in {x \in Updates : x.type = "current_mode_update"} : onSessionUpdate(u)

SpecMode == InitPlain /\ [][NextMode]_vars

\* the update router with restarts and session/load
NextRouter ==
    \/ createSession(1)
    \/ \E ok \in BOOLEAN : createSession_afterInitialize(1, ok)
    \/ \E ok \in BOOLEAN, modes \in NewSessionModes :
          createSession_afterNewSession(1, ok, modes, Undefined)
    \/ \E u \in Updates : onSessionUpdate(u)
    \/ handleLoadStart
    \/ handleLoadEnd
    \/ \E sid \in 1..(adapter.nextSid - 1), modes \in NewSessionModes :
          updateSessionFromLoad(sid, modes, Undefined)

SpecRouter == InitPlain /\ [][NextRouter]_vars

\* turns of one view: sending, agent output, stop, and the restart that the
\* settings-change effect and handleNewChat make while a turn is in flight
NextTurn ==
    \/ createSession(1)
    \/ \E ok \in BOOLEAN : createSession_afterInitialize(1, ok)
    \/ \E ok \in BOOLEAN : createSession_afterNewSession(1, ok, "default", "opus")
    \/ \E u \in Updates : onSessionUpdate(u)
    \/ sendMessage
    \/ turnEnds
    \/ cancelOperation
    \/ \E ok \in BOOLEAN : cancelOperation_afterCancel(ok)

SpecTurn == InitPlain /\ [][NextTurn]_vars

\* the send/stop button of the input, with restarts and adapter errors
NextControl ==
    \/ createSession(1)
    \/ \E ok \in BOOLEAN : createSession_afterInitialize(1, ok)
    \/ \E ok \in BOOLEAN : createSession_afterNewSession(1, ok, "default", "opus")
    \/ \E inputValue \in InputValues, images \in AttachedImages,
          isRestoringSession \in BOOLEAN :
          handleSendOrStop(inputValue, images, isRestoringSession)
    \/ \E ok \in BOOLEAN : cancelOperation_afterCancel(ok)
    \/ turnEnds
    \/ handleError

SpecControl == InitPlain /\ [][NextControl]_vars

\* createSession with the install process and its timer spelled out: the
\* await of autoInstallAgent returns what the promise resolved with
NextInstall ==
    \/ createSession(1)
    \/ autoInstallAgent_tick
    \/ autoInstallAgent_onTimeout
    \/ \E code \in ExitCodes : autoInstallAgent_onClose(code)
    \/ autoInstallAgent_onError
    \/ /\ calls.install.result # "none"
       /\ createSession_afterInstall(1, calls.install.result = "success")
    \/ \E ok \in BOOLEAN : createSession_afterInitialize(1, ok)
    \/ \E ok \in BOOLEAN : createSession_afterNewSession(1, ok, "default", "opus")

SpecInstall == Init /\ [][NextInstall]_vars

\* the Other input of permission requests
NextPermission ==
    \/ \E options \in OptionLists, customText \in InputValues :
          handleSubmitCustomText(options, customText)
    \/ \E ok \in BOOLEAN : handleSubmitCustomText_afterApprove(ok)
    \/ \E ok \in BOOLEAN : handleSubmitCustomText_afterSend(ok)

SpecPermission == InitPlain /\ [][NextPermission]_vars

\* the custom agents section of the settings tab
NextAgents ==
    \/ addCustomAgent
    \/ \E index \in 1..MaxCustomAgents, value \in TypedIds : renameCustomAgent(index, value)
    \/ \E index \in 1..MaxCustomAgents : deleteCustomAgent(index)

SpecAgents == InitPlain /\ [][NextAgents]_vars

\* notifications delivered between a state change and the effect that
\* registers the callback again; nothing but notifications comes in between
Registered ==
    calls.handler = [sessionId |-> session.sessionId, loading |-> isLoadingSessionHistory]

NextRegistration ==
    \/ Registered /\ createSession(1)
    \/ Registered /\ \E ok \in BOOLEAN : createSession_afterInitialize(1, ok)
    \/ Registered /\ \E ok \in BOOLEAN :
                        createSession_afterNewSession(1, ok, "default", Undefined)
    \/ Registered /\ handleLoadStart
    \/ Registered /\ handleLoadEnd
    \/ onSessionUpdate_effect
    \/ \E u \in Updates : onSessionUpdate_callback(u)

SpecRegistration == InitPlain /\ [][NextRegistration]_vars

\* session creation while the key, base URL and model are changed in the
\* settings tab; the settings-change effect and the mount effect call
\* createSession
NextEnv ==
    \/ createSession(1)
    \/ \E ok \in BOOLEAN : createSession_afterInitialize(1, ok)
    \/ \E ok \in BOOLEAN : createSession_afterNewSession(1, ok, "default", "opus")
    \/ \E updates \in CredentialUpdates : updateSettings(updates)

SpecEnv == InitPlain /\ [][NextEnv]_vars

\* session creation with auto-install, and the teardown of the view
NextTeardown ==
    \/ createSession(1)
    \/ \E success \in BOOLEAN : createSession_afterInstall(1, success)
    \/ \E ok \in BOOLEAN : createSession_afterInitialize(1, ok)
    \/ \E ok \in BOOLEAN : createSession_afterNewSession(1, ok, "default", "opus")
    \/ closeSession
    \/ \E ok \in BOOLEAN : closeSession_afterCancel(ok)
    \/ \E ok \in BOOLEAN : closeSession_afterDisconnect(ok)

SpecTeardown == Init /\ [][NextTeardown]_vars

\* the initialize handshake against the clock
NextHandshake ==
    \/ initialize
    \/ tick
    \/ \E ok \in BOOLEAN : initialize_afterResponse(ok)
    \/ initialize_onTimeout

SpecHandshake == InitPlain /\ [][NextHandshake]_vars

\* ------------------------------------------------------ sendPreparedPrompt
\* what a call of the agent client settles with: it resolves, or it throws an
\* error object with code, message and possibly data.details, or something
\* that is no object
Resolved ==
    [thrown |-> FALSE, isObject |-> FALSE, code |-> 0, message |-> "",
     hasData |-> FALSE, details |-> ""]
Thrown(code, message, hasData, details) ==
    [thrown |-> TRUE, isObject |-> TRUE, code |-> code, message |-> message,
     hasData |-> hasData, details |-> details]
GeminiEmpty == Thrown(500, "Model stream ended with empty response text.", FALSE, "")
ClaudeEmpty == Thrown(-32603, "Internal error", TRUE, "empty response text")
AuthRequired == Thrown(-32000, "Authentication required", FALSE, "")
SendErrors ==
    {GeminiEmpty, ClaudeEmpty, AuthRequired,
     Thrown(-32603, "Internal error", TRUE, "timeout"),
     Thrown(500, "Internal error", FALSE, ""),
     Thrown(429, "Too many requests", FALSE, ""),
     [Resolved EXCEPT !.thrown = TRUE]}
SendOutcomes == {Resolved} \cup SendErrors

\* text.includes("empty response text")
includesEmptyResponseText(text) ==
    text \in {"empty response text", "Model stream ended with empty response text."}

isEmptyResponseError(error) ==
    IF ~error.isObject THEN FALSE
    ELSE IF error.code = 500 /\ includesEmptyResponseText(error.message) THEN TRUE
    ELSE IF error.code # -32603 \/ ~error.hasData THEN FALSE
    ELSE includesEmptyResponseText(error.details)

isRateLimitError(error) == error.isObject /\ error.code = 429

\* the results the functions return
Failure(category, title) ==
    [NoResult EXCEPT !.returned = TRUE, !.category = category, !.title = title]
Success == [NoResult EXCEPT !.returned = TRUE, !.success = TRUE]
RetriedSuccessfully == [Success EXCEPT !.retriedSuccessfully = TRUE]
AuthenticationRequired ==
    [Failure("authentication", "Authentication Required") EXCEPT !.requiresAuth = TRUE]
MessageSendFailed == Failure("communication", "Message Send Failed")

\* the call of the adapter and what it settled with, added to the log
called(c, call, outcome, value) ==
    [c EXCEPT !.log = Append(@, [call |-> call, outcome |-> outcome, value |-> value])]

\* the submission returns result
sent(c, result) == [c EXCEPT !.pc = "idle", !.result = result]

singleMethod_some(authMethods) == authMethods >= 1

\* authMethods.length === 1
singleMethod(authMethods) == authMethods = 1

\* handleSendError(error, ...) up to its next await or its return
handleSendError(c, error) ==
    IF isEmptyResponseError(error) THEN [c EXCEPT !.pc = "retry"]
    ELSE IF isRateLimitError(error) THEN sent(c, Failure("rate_limit", "Rate Limit Exceeded"))
    ELSE IF c.authMethods = 0 THEN sent(c, Failure("authentication", "No Authentication Methods"))
    ELSE IF singleMethod(c.authMethods) THEN [c EXCEPT !.pc = "authenticate"]
    ELSE sent(c, AuthenticationRequired)

\* the step record of a segment of the submission
SendStep(op, c) == Step(op, IF c.pc = "idle" THEN "returned" ELSE "awaiting")

\* sendPreparedPrompt(input, agentClient): agentClient.sendPrompt is called
sendPreparedPrompt(authMethods) ==
    /\ calls.send.pc = "idle"
    /\ hist.prompts < MaxPrompts
    /\ hist' = [hist EXCEPT !.prompts = @ + 1]
    /\ calls' = [calls EXCEPT !.send =
                    [pc |-> "sendPrompt", authMethods |-> authMethods, log |-> <<>>,
                     result |-> NoResult]]
    /\ last' = Step("sendPreparedPrompt", "awaiting")
    /\ UNCHANGED <<sessionVars, storeVars>>

\* the first sendPrompt settled
sendPreparedPrompt_afterSendPrompt(outcome) ==
    /\ calls.send.pc = "sendPrompt"
    /\ LET c == called(calls.send, "sendPrompt", outcome, ~outcome.thrown)
           next == IF outcome.thrown THEN handleSendError(c, outcome) ELSE sent(c, Success)
       IN  /\ calls' = [calls EXCEPT !.send = next]
           /\ last' = SendStep("sendPreparedPrompt_afterSendPrompt", next)
    /\ UNCHANGED <<sessionVars, storeVars, hist>>

\* the sendPrompt repeated after an empty response settled
handleSendError_afterSendPrompt(outcome) ==
    /\ calls.send.pc = "retry"
    /\ LET c == called(calls.send, "sendPrompt", outcome, ~outcome.thrown)
           next == IF ~outcome.thrown THEN sent(c, Success)
                   ELSE IF isEmptyResponseError(outcome) THEN sent(c, Failure("communication", "Empty Response"))
                   ELSE handleSendError(c, outcome)
       IN  /\ calls' = [calls EXCEPT !.send = next]
           /\ last' = SendStep("handleSendError_afterSendPrompt", next)
    /\ UNCHANGED <<sessionVars, storeVars, hist>>

\* retryWithAuthentication without its catch block: what authenticate throws
\* leaves the submission without a result
retryWithAuthentication_afterAuthenticate_uncaught(outcome, authSuccess) ==
    /\ calls.send.pc = "authenticate"
    /\ outcome.thrown => ~authSuccess
    /\ LET c == called(calls.send, "authenticate", outcome, authSuccess)
           next == IF outcome.thrown THEN [c EXCEPT !.pc = "idle"]
                   ELSE IF ~authSuccess THEN sent(c, AuthenticationRequired)
                   ELSE [c EXCEPT !.pc = "resend"]
       IN  /\ calls' = [calls EXCEPT !.send = next]
           /\ last' = SendStep("retryWithAuthentication_afterAuthenticate", next)
    /\ UNCHANGED <<sessionVars, storeVars, hist>>

\* agentClient.authenticate(authMethodId) settled: it resolved with authSuccess
\* or it threw
retryWithAuthentication_afterAuthenticate(outcome, authSuccess) ==
    /\ calls.send.pc = "authenticate"
    /\ outcome.thrown => ~authSuccess
    /\ LET c == called(calls.send, "authenticate", outcome, authSuccess)
           next == IF outcome.thrown THEN sent(c, MessageSendFailed)
                   ELSE IF ~authSuccess THEN sent(c, AuthenticationRequired)
                   ELSE [c EXCEPT !.pc = "resend"]
       IN  /\ calls' = [calls EXCEPT !.send = next]
           /\ last' = SendStep("retryWithAuthentication_afterAuthenticate", next)
    /\ UNCHANGED <<sessionVars, storeVars, hist>>

\* the sendPrompt after the authentication settled
retryWithAuthentication_afterSendPrompt(outcome) ==
    /\ calls.send.pc = "resend"
    /\ LET c == called(calls.send, "sendPrompt", outcome, ~outcome.thrown)
           next == IF outcome.thrown THEN sent(c, MessageSendFailed)
                   ELSE sent(c, RetriedSuccessfully)
       IN  /\ calls' = [calls EXCEPT !.send = next]
           /\ last' = SendStep("retryWithAuthentication_afterSendPrompt", next)
    /\ UNCHANGED <<sessionVars, storeVars, hist>>

\* prompts are submitted one after the other, to agents that advertise no,
\* one or two authentication methods
NextSend ==
    \/ \E authMethods \in 0..2 : sendPreparedPrompt(authMethods)
    \/ \E outcome \in SendOutcomes : sendPreparedPrompt_afterSendPrompt(outcome)
    \/ \E outcome \in SendOutcomes : handleSendError_afterSendPrompt(outcome)
    \/ \E outcome \in {Resolved, AuthRequired}, authSuccess \in BOOLEAN :
          retryWithAuthentication_afterAuthenticate(outcome, authSuccess)
    \/ \E outcome \in SendOutcomes : retryWithAuthentication_afterSendPrompt(outcome)

SpecSend == InitWith({FALSE}) /\ [][NextSend]_vars

\* every call of the agent client a submission awaits settles
SendSettles ==
    /\ WF_vars(\E outcome \in SendOutcomes : sendPreparedPrompt_afterSendPrompt(outcome))
    /\ WF_vars(\E outcome \in SendOutcomes : handleSendError_afterSendPrompt(outcome))
    /\ WF_vars(\E outcome \in {Resolved, AuthRequired}, authSuccess \in BOOLEAN :
                  retryWithAuthentication_afterAuthenticate(outcome, authSuccess))
    /\ WF_vars(\E outcome \in SendOutcomes : retryWithAuthentication_afterSendPrompt(outcome))

SpecSendSettles == SpecSend /\ SendSettles

\* ---- the vault as the plugin finds it at startup
\* a file that is not JSON
Malformed ==
    [json |-> FALSE, versionIsNumber |-> FALSE, version |-> 0, messagesIsArray |-> FALSE,
     sessionId |-> <<>>, messages |-> <<>>]
\* files left in sessions/ under the name of sessionId: written by this
\* version, written by a later version, or damaged
DiskFiles(sessionId) ==
    LET good == SessionMessagesFile(sessionId, ShortChat)
    IN  {good,
         [good EXCEPT !.version = 2],
         Malformed,
         [good EXCEPT !.versionIsNumber = FALSE, !.version = 0],
         [good EXCEPT !.messagesIsArray = FALSE, !.messages = <<>>],
         [good EXCEPT !.sessionId = <<>>]}

\* session ids of the files found at startup: one per file name
DiskIds == {<<"a", "_">>, <<"b", "1">>}

Disks ==
    UNION {[{getSessionFilePath(id) : id \in D} -> UNION {DiskFiles(id) : id \in D}]
             : D \in SUBSET DiskIds}

\* every file carries the session id of its name, if it carries one
InitDisk ==
    /\ InitSession({FALSE})
    /\ files \in {fs \in Disks : \A id \in DiskIds :
                       getSessionFilePath(id) \in DOMAIN fs
                          => fs[getSessionFilePath(id)] \in DiskFiles(id)}
    /\ sessionsDir = (files # <<>>)
    /\ savedSessions \in {<<>>, <<[sessionId |-> <<"b", "1">>, title |-> ChatTitle]>>}

\* saving and loading message logs
NextLog ==
    \/ \E id \in DiskIds, msgs \in StoreMessages : saveSessionMessages(id, msgs)
    \/ saveSessionMessages_afterEnsureSessionsDir
    \/ \E id \in DiskIds : loadSessionMessages(id)
    \/ loadSessionMessages_afterExists
    \/ loadSessionMessages_afterRead

SpecLog == InitDisk /\ [][NextLog]_vars

\* the repair pass over the files found and the files saved since
NextRepair ==
    \/ \E msgs \in StoreMessages : saveSessionMessages(<<"a", "_">>, msgs)
    \/ saveSessionMessages_afterEnsureSessionsDir
    \/ repairSessionMetadata
    \/ repairSessionMetadata_afterExists
    \/ repairSessionMetadata_afterList
    \/ \E filePath \in calls.repair.pending : repairSessionMetadata_afterRead(filePath)
    \/ repairSessionMetadata_afterUpdateSettings

SpecRepair == InitDisk /\ [][NextRepair]_vars

\* deleting sessions while the history is read
NextDelete ==
    \/ \E id \in DiskIds : saveSession(id)
    \/ \E id \in DiskIds : deleteSession(id)
    \/ deleteSession_afterExists
    \/ \E ok \in BOOLEAN : deleteSession_afterRemove(ok)
    \/ \E id \in DiskIds : loadSessionMessages(id)
    \/ loadSessionMessages_afterExists
    \/ loadSessionMessages_afterRead

SpecDelete == InitDisk /\ [][NextDelete]_vars

\* message logs of session ids whose file names may coincide: saved, loaded
\* and deleted in a vault that starts empty
NextIsolation ==
    \/ \E id \in StoreIds, msgs \in {ShortChat, LongChat} : saveSessionMessages(id, msgs)
    \/ saveSessionMessages_afterEnsureSessionsDir
    \/ \E id \in StoreIds : loadSessionMessages(id)
    \/ loadSessionMessages_afterExists
    \/ loadSessionMessages_afterRead
    \/ \E id \in StoreIds : deleteSession(id)
    \/ deleteSession_afterExists
    \/ \E ok \in BOOLEAN : deleteSession_afterRemove(ok)

SpecIsolation == InitPlain /\ [][NextIsolation]_vars

\* a vault whose list is one entry short of the maximum, with or without an
\* orphaned message file
InitFull ==
    /\ InitSession({FALSE})
    /\ savedSessions = Saved(MAX_SAVED_SESSIONS - 1)
    /\ files \in {<<>>, write(<<>>, getSessionFilePath(<<"b", "1">>),
                                SessionMessagesFile(<<"b", "1">>, ShortChat))}
    /\ sessionsDir = (files # <<>>)

\* the oldest and the newest entry of the full vault and two new sessions
CapIds == {FillerId(1), FillerId(MAX_SAVED_SESSIONS - 1), <<"a", "_">>, <<"b", "1">>}

NextCap ==
    \/ \E id \in CapIds : saveSession(id)
    \/ \E id \in CapIds : deleteSession(id)
    \/ deleteSession_afterExists
    \/ \E ok \in BOOLEAN : deleteSession_afterRemove(ok)
    \/ repairSessionMetadata
    \/ repairSessionMetadata_afterExists
    \/ repairSessionMetadata_afterList
    \/ \E filePath \in calls.repair.pending : repairSessionMetadata_afterRead(filePath)
    \/ repairSessionMetadata_afterUpdateSettings

SpecCap == InitFull /\ [][NextCap]_vars

NextStore ==
    \/ \E id \in StoreIds : saveSession(id)
    \/ \E id \in StoreIds : deleteSession(id)
    \/ deleteSession_afterExists
    \/ \E ok \in BOOLEAN : deleteSession_afterRemove(ok)
    \/ \E id \in StoreIds : saveSessionMessages(id, ShortChat)
    \/ saveSessionMessages_afterEnsureSessionsDir
    \/ repairSessionMetadata
    \/ repairSessionMetadata_afterExists
    \/ repairSessionMetadata_afterList
    \/ \E filePath \in calls.repair.pending : repairSessionMetadata_afterRead(filePath)
    \/ repairSessionMetadata_afterUpdateSettings

SpecStore == InitPlain /\ [][NextStore]_vars

\* ------------------------------------------------------------ properties
Delivered == last.op = "onSessionUpdate"
Discarded == ~last.msgsChanged /\ ~last.sessChanged

\* C1 (as stated): until disconnect() is called, adapter.initialize is invoked
\* at most once per agent id, whatever sequence of createSession calls runs.
C1_InitializeAtMostOncePerAgent ==
    \A a \in KnownAgents : adapter.initCalls[a] <= 1

\* C1 (amended): a createSession (or loadSession) call invokes adapter.initialize
\* only when the adapter is not initialized or is initialized for another agent
\* id; it never re-initializes an agent the adapter is initialized for.
C1_InitializeOnlyWhenNeeded ==
    [][/\ \A c \in CreateSlots :
            (calls.create[c].pc # "initialize" /\ calls'.create[c].pc = "initialize")
               => ~(adapter.initialized /\ adapter.agentId = calls'.create[c].agentId)
       /\ (calls.load.pc # "initialize" /\ calls'.load.pc = "initialize")
               => ~(adapter.initialized /\ adapter.agentId = calls'.load.agentId)]_vars

\* a second createSession found the adapter initialized for its agent and went
\* straight to newSession
C1_Witness ==
    /\ last.op = "createSession"
    /\ \E c \in CreateSlots :
          /\ calls.create[c].pc = "newSession"
          /\ ~calls.create[c].needsInit
          /\ adapter.initialized
          /\ adapter.agentId = calls.create[c].agentId
          /\ adapter.initCalls[calls.create[c].agentId] = 1

C3_InitializingResolves ==
    (session.state = "initializing") ~> (session.state \in {"ready", "error"})

\* the agent-not-found path ended in error
C3_Witness ==
    /\ session.state = "error"
    /\ errorInfo = "Agent Not Found"
    /\ last.res = "notFound"

\* C4 (as stated): setMode / setModel show the new id at once; after a rejected
\* request the id is the one current before the call; a resolved one leaves the
\* id as it is.
C4_OptimisticWithRollback ==
    /\ (last.op = "setMode" /\ last.res = "awaiting") => session.modes = calls.mode.id
    /\ (last.op = "setModel" /\ last.res = "awaiting") => session.models = calls.model.id
    /\ (last.op = "setMode_afterSetSessionMode" /\ last.res = "rejected")
          => session.modes = calls.mode.before
    /\ (last.op = "setModel_afterSetSessionModel" /\ last.res = "rejected")
          => session.models = calls.model.before
    /\ (last.op \in {"setMode_afterSetSessionMode", "setModel_afterSetSessionModel"}
          /\ last.res = "ok") => ~last.sessChanged

\* C4 (amended): setMode / setModel show the new id at once; a rejected request
\* sets the id back to the one current before the call provided the session still
\* carries modes (models), and otherwise leaves the session alone; a resolved
\* request changes nothing more.
C4_OptimisticWithGuardedRollback ==
    /\ (last.op = "setMode" /\ last.res = "awaiting") => session.modes = calls.mode.id
    /\ (last.op = "setModel" /\ last.res = "awaiting") => session.models = calls.model.id
    /\ (last.op = "setMode_afterSetSessionMode" /\ last.res = "rejected")
          => IF session.modes # Undefined THEN session.modes = calls.mode.before
             ELSE ~last.sessChanged
    /\ (last.op = "setModel_afterSetSessionModel" /\ last.res = "rejected")
          => IF session.models # Undefined THEN session.models = calls.model.before
             ELSE ~last.sessChanged
    /\ (last.op \in {"setMode_afterSetSessionMode", "setModel_afterSetSessionModel"}
          /\ last.res = "ok") => ~last.sessChanged

\* a rejected setMode rolled the shown mode back
C4_Witness ==
    /\ last.op = "setMode_afterSetSessionMode"
    /\ last.res = "rejected"
    /\ last.sessChanged
    /\ calls.mode.id # calls.mode.before
    /\ session.modes = calls.mode.before

\* C5: closeSession ends disconnected with no session id whatever cancel and
\* disconnect answered; cancel is tried only with a session id and before
\* disconnect.
C5_CloseAlwaysDisconnected ==
    /\ last.op = "closeSession_afterDisconnect"
          => /\ session.state = "disconnected"
             /\ session.sessionId = NoSession
             /\ calls.close.pc = "idle"
             /\ calls.close.log = IF calls.close.sid # NoSession
                                  THEN <<"cancel", "disconnect">>
                                  ELSE <<"disconnect">>
    /\ calls.close.pc = "cancel" => calls.close.log = <<"cancel">>

\* cancel and disconnect both rejected
C5_Witness ==
    /\ last.op = "closeSession_afterDisconnect"
    /\ last.res = "rejected"
    /\ calls.close.cancelRes = "rejected"
    /\ session.state = "disconnected"

\* C6: bound to session A, a notification tagged B # A changes neither the
\* message list nor the session.
C6_OtherSessionDiscarded ==
    (Delivered /\ last.bound # NoSession /\ last.u.sessionId # last.bound)
        => Discarded

\* a notification for another session arrived at a bound router
C6_Witness ==
    /\ Delivered
    /\ last.bound # NoSession
    /\ last.u.sessionId # last.bound
    /\ last.u.type \in ContentTypes
    /\ ~last.loading

\* C7: from the start of a restart on, also while the session id is still null,
\* a notification of the previous session is discarded.
C7_StaleDiscardedAfterRestart ==
    (Delivered /\ last.u.sessionId # last.bound) => Discarded

ActiveDuringLoad ==
    Delivered /\ last.loading /\ last.bound # NoSession /\ last.u.sessionId = last.bound

\* C9 (as stated): during session/load the session-level notifications of the
\* active session are applied: commands and current mode become the announced.
C9_SessionLevelAppliedDuringLoad ==
    /\ (ActiveDuringLoad /\ last.u.type = "available_commands_update")
          => session.availableCommands = last.u.value
    /\ (ActiveDuringLoad /\ last.u.type = "current_mode_update")
          => session.modes = last.u.value

\* C9 (amended): the commands always become the announced list; the current
\* mode becomes the announced id when the session carries modes, and the
\* notification is dropped when it carries none.
C9_SessionLevelAppliedWhenModesExist ==
    /\ (ActiveDuringLoad /\ last.u.type = "available_commands_update")
          => session.availableCommands = last.u.value
    /\ (ActiveDuringLoad /\ last.u.type = "current_mode_update")
          => IF last.preModes # Undefined THEN session.modes = last.u.value
             ELSE session.modes = Undefined

\* a mode change announced during session/load reached the session
C9_Witness ==
    /\ ActiveDuringLoad
    /\ last.u.type = "current_mode_update"
    /\ last.preModes # Undefined
    /\ last.preModes # last.u.value
    /\ session.modes = last.u.value

\* entries of the list that carry the session id
entriesOf(sessions, sessionId) ==
    {i \in DOMAIN sessions : sessions[i].sessionId = sessionId}

\* C10: of two repairSessionMetadata runs in a row (no other store operation
\* takes a step from the start of the first to the end of the second) the
\* second returns 0 and leaves the metadata list as it found it, and a run adds
\* no entry for a session id the list has and no two entries for one id.
C10_RepairTwiceAddsNothing ==
    /\ Len(repairLog.results) = 2
          => (repairLog.results[2] = 0 /\ savedSessions = repairLog.before)
    /\ (last.res = "returned" /\ repairLog.results # <<>>)
          => LET n == repairLog.results[Len(repairLog.results)]
             IN  /\ Len(savedSessions) = n + Len(repairLog.before)
                 /\ SubSeq(savedSessions, n + 1, Len(savedSessions)) = repairLog.before
                 /\ \A i \in 1..n :
                       /\ entriesOf(repairLog.before, savedSessions[i].sessionId) = {}
                       /\ entriesOf(SubSeq(savedSessions, 1, n),
                                    savedSessions[i].sessionId) = {i}

\* the first run of a row repaired an orphaned file, the second found nothing
C10_Witness ==
    /\ last.res = "returned"
    /\ Len(repairLog.results) = 2
    /\ repairLog.results[1] > 0
    /\ repairLog.results[2] = 0
    /\ savedSessions # <<>>

\* a repair run returned and no other store operation took a step during it
QuietRunReturned == last.res = "returned" /\ repairLog.results # <<>>

\* files of the known version that were orphaned when the run started
OrphanedLogs ==
    {filePath \in DOMAIN files :
        /\ files[filePath].json /\ files[filePath].versionIsNumber
        /\ files[filePath].version = 1 /\ files[filePath].messagesIsArray
        /\ files[filePath].sessionId # <<>>
        /\ entriesOf(repairLog.before, files[filePath].sessionId) = {}}

\* text of the first text block of the first user message, <<>> and FALSE
\* when the first user message has none
firstUserText(msgs) ==
    LET users == {i \in DOMAIN msgs : msgs[i].role = "user"}
        m == CHOOSE i \in users : \A j \in users : i <= j
        texts == {k \in DOMAIN msgs[m].content : msgs[m].content[k].type = "text"}
        t == CHOOSE k \in texts : \A l \in texts : k <= l
    IN  IF users = {} THEN [found |-> FALSE, text |-> <<>>]
        ELSE IF texts = {} THEN [found |-> FALSE, text |-> <<>>]
        ELSE [found |-> TRUE, text |-> msgs[m].content[t].text]

\* the one entry of the list for the session id of the file has the title
titledAs(filePath, title) ==
    LET es == entriesOf(savedSessions, files[filePath].sessionId)
    IN  Cardinality(es) = 1 /\ \A i \in es : savedSessions[i].title = title

C12_IndexNeverExceedsMaximum == Len(savedSessions) <= MAX_SAVED_SESSIONS

\* C13: after saveSession(info) the entry of info.sessionId is the first of the
\* list, whether it was inserted or updated.
C13_SavedEntryIsFirst ==
    [][\A id \in CapIds :
          saveSession(id) => (savedSessions' # <<>> /\ savedSessions'[1].sessionId = id)]_vars

\* C14: whatever interleaving of saveSession, deleteSession and the repair pass
\* ran, no two entries of the metadata list carry the same sessionId.
C14_NoDuplicateSessionIds ==
    \A i, j \in DOMAIN savedSessions :
        savedSessions[i].sessionId = savedSessions[j].sessionId => i = j

\* C15: a step of deleteSession(id) on a session that has an entry and a
\* message file leaves both or neither, so that no observer finds exactly one of
\* the two, and when the call ends, however adapter.remove settled, the message
\* file is gone.
C15_DeleteRemovesBothAtOnce ==
    [][\A id \in DiskIds :
          /\ (/\ deleteSession(id)
              /\ id \in sessionIdsOf(savedSessions)
              /\ getSessionFilePath(id) \in DOMAIN files)
                => (id \in sessionIdsOf(savedSessions')
                      <=> getSessionFilePath(id) \in DOMAIN files')
          /\ \A ok \in BOOLEAN :
                (id = calls.deleteSession.sessionId /\ deleteSession_afterRemove(ok))
                    => getSessionFilePath(id) \notin DOMAIN files']_vars

\* the file a load call reads, and whether the call has just returned
ReadPath == getSessionFilePath(calls.loadSessionMessages.sessionId)
LoadReturned ==
    /\ last.op \in {"loadSessionMessages_afterExists", "loadSessionMessages_afterRead"}
    /\ last.res = "returned"

C17_UnknownVersionLoadsNull ==
    (/\ LoadReturned
     /\ \/ ReadPath \notin DOMAIN files
        \/ ~files[ReadPath].json
        \/ ~files[ReadPath].versionIsNumber
        \/ ~files[ReadPath].messagesIsArray
        \/ files[ReadPath].version # 1)
        => calls.loadSessionMessages.result = Null

\* a version 2 record with messages was read and null returned
C17_Witness ==
    /\ LoadReturned
    /\ ReadPath \in DOMAIN files
    /\ files[ReadPath].json
    /\ files[ReadPath].version = 2
    /\ files[ReadPath].messages # <<>>
    /\ calls.loadSessionMessages.result = Null

\* files that are not JSON, lack a numeric version, a messages array or a
\* session id, or carry another version than 1
DamagedLogs ==
    {filePath \in DOMAIN files :
        \/ ~files[filePath].json
        \/ ~files[filePath].versionIsNumber
        \/ ~files[filePath].messagesIsArray
        \/ files[filePath].sessionId = <<>>
        \/ files[filePath].version # 1}

\* C18: after a repair run no damaged or unexpected-version record has got a
\* metadata entry, and every orphaned record of the known version has its entry.
C18_DamagedRecordSkippedOthersRepaired ==
    QuietRunReturned =>
        /\ \A filePath \in DamagedLogs :
              entriesOf(repairLog.before, files[filePath].sessionId) = {}
                 => entriesOf(savedSessions, files[filePath].sessionId) = {}
        /\ \A filePath \in OrphanedLogs :
              Cardinality(entriesOf(savedSessions, files[filePath].sessionId)) = 1

\* a prompt submission has just returned
SendReturned ==
    /\ last.op \in {"sendPreparedPrompt_afterSendPrompt", "handleSendError_afterSendPrompt",
                    "retryWithAuthentication_afterAuthenticate",
                    "retryWithAuthentication_afterSendPrompt"}
    /\ last.res = "returned"

\* positions of the log: sendPrompt calls, those that threw an empty response,
\* authenticate calls
SendPrompts == {i \in DOMAIN calls.send.log : calls.send.log[i].call = "sendPrompt"}
EmptyResponses ==
    {i \in SendPrompts : calls.send.log[i].outcome \in {GeminiEmpty, ClaudeEmpty}}
Authentications == {i \in DOMAIN calls.send.log : calls.send.log[i].call = "authenticate"}

\* C19: when a submission returns, its first empty response was followed by
\* another sendPrompt, and an empty response that directly follows an empty
\* response was the last call.
C19_EmptyResponseRetriedOnce ==
    SendReturned =>
        \A i \in EmptyResponses :
            /\ (\A j \in EmptyResponses : i <= j) => i < Len(calls.send.log)
            /\ (i - 1) \in EmptyResponses => i = Len(calls.send.log)

\* sendPrompt calls made after an authenticate call, and sendPrompt calls
\* before any that failed for lack of authentication
Resends == {i \in SendPrompts : \E j \in Authentications : j < i}
AuthenticationFailures ==
    {i \in SendPrompts \ Resends : calls.send.log[i].outcome = AuthRequired}

C21_SkippedInitializeKeepsAuthAndCapabilities ==
    [][\A c \in CreateSlots, modes \in NewSessionModes, models \in NewSessionModels :
          (/\ createSession_afterNewSession(c, TRUE, modes, models)
           /\ ~calls.create[c].needsInit
           /\ adapter.initialized
           /\ adapter.agentId = calls.create[c].agentId
           /\ session.agentCapabilities = initResult(adapter.agentId).agentCapabilities)
              => /\ session'.authMethods = initResult(adapter.agentId).authMethods
                 /\ session'.agentCapabilities
                       = initResult(adapter.agentId).agentCapabilities]_vars

\* C22: switchAgent(id) stores id as the active agent in the settings and, once
\* the settings call resolved, sets the agent id of the session and clears
\* capabilities, modes, models and commands; no step of it changes the state
\* or the session id of the session, calls the adapter or starts a createSession.
C22_SwitchAgentClearsWithoutRestart ==
    [][/\ \A id \in AgentIds :
             switchAgent(id)
                => /\ settings'.activeAgentId = id
                   /\ session' = session
                   /\ adapter' = adapter
                   /\ calls'.create = calls.create /\ calls'.load = calls.load
       /\ \A ok \in BOOLEAN :
             switchAgent_afterUpdate(ok)
                => /\ session'.state = session.state
                   /\ session'.sessionId = session.sessionId
                   /\ adapter' = adapter /\ settings' = settings
                   /\ calls'.create = calls.create /\ calls'.load = calls.load
                   /\ ok => /\ session'.agentId = calls.switch.agentId
                            /\ session'.agentCapabilities = Undefined
                            /\ session'.modes = Undefined
                            /\ session'.models = Undefined
                            /\ session'.availableCommands = Undefined]_vars

\* a ready session was switched to another agent: it is still ready under its
\* session id, without capabilities and modes
C22_Witness ==
    /\ last.op = "switchAgent_afterUpdate"
    /\ last.res = "ok"
    /\ session.state = "ready"
    /\ session.sessionId # NoSession
    /\ session.agentId # adapter.agentId
    /\ adapter.initialized
    /\ session.agentCapabilities = Undefined
    /\ session.modes = Undefined

\* C23: a step that moves the session to error starts from initializing or
\* ready.  (A createSession or loadSession call that finds no agent settings
\* applies its reset to initializing and its error update in one step; that
\* step enters error from initializing.)
C23_ErrorOnlyFromInitializingOrReady ==
    [][(session'.state = "error" /\ session.state # "error")
          => (session.state \in {"initializing", "ready"} \/ last'.res = "notFound")]_vars

\* C24: the settings change only in a step of the settings port's
\* updateSettings, which the session machine calls from switchAgent.
C24_SettingsChangeOnlyThroughUpdateSettings ==
    [][settings' # settings =>
         \/ \E id \in AgentIds : switchAgent(id)
         \/ \E updates \in CredentialUpdates : updateSettings(updates)]_vars

\* C25: each time a turn ends with messages in the list, the full current
\* message list is handed to saveSessionMessages under the id of the session
\* the turn was sent on
C25_TurnEndSavesToItsSession ==
    [][(turnEnds /\ Len(messages) > 0) =>
         calls'.turn.save = [sessionId |-> calls.turn.sessionId, messages |-> messages]]_vars

C27_StopAlwaysAvailableWhileSending ==
    [][isSending =>
         \A inputValue \in InputValues, images \in AttachedImages,
            isRestoringSession \in BOOLEAN :
            /\ ~isButtonDisabled(isSending, inputValue, images, isRestoringSession)
            /\ handleSendOrStop(inputValue, images, isRestoringSession) =>
                   (last'.op = "cancelOperation" /\ isSending')]_vars

\* stop was pressed during a turn while the session was restarting
C27_Witness ==
    /\ isSending
    /\ last.op = "cancelOperation"
    /\ session.state = "initializing"

\* C28: initialize waits no longer than the timeout budget; when the timer
\* fires the call is rejected with the timeout error and the process it
\* spawned is killed; a call that got its response in time keeps its process
\* and its timer never fires afterwards
C28_InitializeTimesOutOrClearsTimer ==
    LET call == calls.initialize
    IN  /\ call.pc = "awaiting" => (call.timer = "pending" /\ call.process = "running")
        /\ call.timer = "fired" =>
               (call.pc = "rejected" /\ call.error = "timeout" /\ call.process = "killed")
        /\ call.pc = "resolved" => (call.timer = "cleared" /\ call.process = "running")
        /\ call.pc = "rejected" => call.process = "killed"

\* no response came for the whole budget and the timer fired
C28_Witness ==
    /\ last.op = "initialize_onTimeout"
    /\ calls.initialize.clock = INITIALIZE_TIMEOUT
    /\ calls.initialize.error = "timeout"
    /\ calls.initialize.process = "killed"

\* C29: when closeSession has completed, the adapter holds no agent process
\* and no install process started for the session still runs with its timer
C29_NothingRunsAfterClose ==
    [][\A ok \in BOOLEAN :
         closeSession_afterDisconnect(ok) => (~adapter'.initialized /\ ~autoInstallRunning')]_vars

\* C30: a session made ready by createSession is served by an agent process
\* whose environment is the one that createSession call built from the key,
\* base URL and model in the settings
C30_ReadySessionRunsWithBuiltEnvironment ==
    [][\A c \in CreateSlots :
         createSession_afterNewSession(c, TRUE, "default", "opus") =>
            adapter'.env = calls.create[c].env]_vars

\* C31: every notification the adapter delivers is processed as the current
\* session id and the current load flag require, whichever callback is
\* registered at that moment
C31_DeliveredAgainstCurrentSession ==
    [][\A u \in Updates :
         onSessionUpdate_callback(u) =>
            /\ messages' = routedMessages(session.sessionId, isLoadingSessionHistory,
                                          messages, u)
            /\ session' = routedSession(session.sessionId, isLoadingSessionHistory,
                                        session, u)]_vars

\* C32: no two profiles of the registry, built-in and custom together,
\* carry the same id
C32_AgentIdsUnique ==
    LET customAgents == settings.customAgents
    IN  /\ \A i, j \in DOMAIN customAgents : customAgents[i] = customAgents[j] => i = j
        /\ \A i \in DOMAIN customAgents : customAgents[i] \notin KnownAgents

\* C33: Send & Reject answers the request with a rejecting option and hands
\* the text to onSendMessage only after the request was answered so
C33_OtherRejectsBeforeSending ==
    LET p == calls.permission
    IN  /\ p.answered # "none" => p.answered \in {"reject_once", "reject_always"}
        /\ p.sent => p.answered \in {"reject_once", "reject_always"}

\* C34: the install step resolves within the timeout; with success only for
\* a process that closed with code 0 before the timer fired; a fired timer
\* means the process was signalled and the result is failure, whatever the
\* process exits with later; the command is configured only after success
C34_InstallBoundedByTimeout ==
    LET install == calls.install
    IN  /\ (install.child # "none" /\ install.result = "none") =>
               (install.timer = "pending" /\ install.clock <= INSTALL_TIMEOUT)
        /\ install.result = "success" =>
               /\ install.child = "closed" /\ install.code = 0
               /\ install.timer = "cleared" /\ ~install.hasTimeout
        /\ install.hasTimeout =>
               /\ install.result = "failure" /\ install.timer = "fired"
               /\ install.child \in {"terminating", "closed", "errored"}
        /\ settings.configured # {} => install.result = "success"

\* the timer fired, the process exited with code 0 afterwards, the result is
\* still failure and createSession went on without a command
C34_Witness ==
    /\ calls.install.hasTimeout
    /\ calls.install.child = "closed"
    /\ calls.install.code = 0
    /\ calls.install.result = "failure"
    /\ calls.create[1].pc # "autoInstall"
    /\ settings.configured = {}

\* C35: a ready session holds a session id
C35_ReadyHasSessionId == session.state = "ready" => session.sessionId # NoSession

\* C36: a disconnected session without a session id stays so until a
\* createSession or loadSession call is started: no call that was in flight
\* when closeSession completed moves it to ready or error
C36_ClosedStaysDisconnected ==
    [][(session.state = "disconnected" /\ session.sessionId = NoSession
        /\ (session'.state # "disconnected" \/ session'.sessionId # NoSession))
          => last'.op \in {"createSession", "loadSession"}]_vars

\* C37: when createSession calls overlap, the session that ends up ready is
\* the one of the most recently started call. Under SpecOverlap the call in
\* slot 1 is the most recently started one only until a second call starts:
\* once one has, the first call does not leave the session ready with its own
\* session id when no other call is in flight
C37_ReadyFromLatestCall ==
    [][\A modes \in NewSessionModes, models \in NewSessionModels :
         (/\ createSession_afterNewSession(1, TRUE, modes, models)
          /\ hist.starts > 1
          /\ calls.create[2].pc = "idle")
            => session'.sessionId # adapter.nextSid]_vars

\* C38: sendPreparedPrompt always terminates with a result object: a
\* submission calls sendPrompt at most three times and authenticate at most
\* once whatever the adapter calls settle with, a submission that is over
\* has returned a result, and every submission is over eventually
C38_SendTerminatesWithResult ==
    /\ [](/\ Cardinality(SendPrompts) <= 3
          /\ Cardinality(Authentications) <= 1
          /\ (calls.send.pc = "idle" /\ calls.send.log # <<>>)
                => calls.send.result.returned)
    /\ (calls.send.pc # "idle" ~> calls.send.pc = "idle")

\* the longest submission: an empty response, the retry fails for lack of
\* authentication, authenticate resolves true, the third sendPrompt throws
C38_Witness ==
    /\ calls.send.pc = "idle"
    /\ Cardinality(SendPrompts) = 3
    /\ Cardinality(Authentications) = 1
    /\ calls.send.result = MessageSendFailed

\* C39: errorInfo is non-null exactly when the session state is error
C39_ErrorInfoIffErrorState ==
    (errorInfo # NoError) <=> (session.state = "error")

\* C40: message logs of distinct session ids never interfere: the messages
\* loadSessionMessages(id) returns were saved under the same id
C40_LoadedLogSavedUnderSameId ==
    (LoadReturned /\ ~calls.loadSessionMessages.result.isNull)
        => /\ ReadPath \in DOMAIN files
           /\ files[ReadPath].sessionId = calls.loadSessionMessages.sessionId
====
